---- MODULE Spec2Model ----
(***************************************************************************)
(* A model of the ferrum in-memory relational engine: Table (schema, rows, *)
(* primary-key index), TableReader, Database (catalog and foreign keys)    *)
(* and the SqlExecutor statements that drive them.                         *)
(*                                                                         *)
(* Representation.                                                         *)
(*   String          a sequence of one-character strings, <<"1","0">>      *)
(*   Option<T>       <<>> for None, <<x>> for Some(x)                      *)
(*   Row             a sequence of Option<String> cells                    *)
(*   usize position  the 0-based number the code uses; rows[p + 1] is the  *)
(*                   row at position p                                     *)
(*   Result          [st, err, n]: st is "ok", "err" or "panic", err the   *)
(*                   message prefix of the source, n the count returned    *)
(*   names           column, table and keyword tokens are atomic strings   *)
(***************************************************************************)
EXTENDS Integers, Sequences, FiniteSets, TLC

VARIABLES tables, reader, last, registry, session, locks, threads

vars == <<tables, reader, last, registry, session, locks, threads>>

----------------------------------------------------------------------------
(* Bounds of the model *)

MaxRows == 2

----------------------------------------------------------------------------
(* Generic helpers *)

None == <<>>

Some(x) == <<x>>

IsSome(o) == Len(o) = 1

Unwrap(o) == o[1]

Ok(n) == [st |-> "ok", err |-> "", n |-> n]

Err(m) == [st |-> "err", err |-> m, n |-> 0]

Panic(m) == [st |-> "panic", err |-> m, n |-> 0]

Range(s) == {s[i] : i \in 1..Len(s)}

\* Vec::remove(index) for a 0-based index known to be in range
RemoveAt(s, p) == [i \in 1..(Len(s) - 1) |-> IF i <= p THEN s[i] ELSE s[i + 1]]

\* iter().position(): 0-based position of the first element satisfying Test, as an Option
RECURSIVE PositionFrom(_, _, _)
PositionFrom(s, x, i) ==
    IF i > Len(s) THEN None
    ELSE IF s[i] = x THEN Some(i - 1)
    ELSE PositionFrom(s, x, i + 1)

Position(s, x) == PositionFrom(s, x, 1)

\* [String]::join("|")
RECURSIVE JoinBar(_)
JoinBar(vs) ==
    IF Len(vs) = 0 THEN <<>>
    ELSE IF Len(vs) = 1 THEN vs[1]
    ELSE vs[1] \o <<"|">> \o JoinBar(Tail(vs))

\* all orders in which a HashMap with the key set S may be iterated
Orders(S) == {o \in [1..Cardinality(S) -> S] : Range(o) = S}

----------------------------------------------------------------------------
(* str::parse::<u64>() *)

Digits == {"0", "1", "2", "3", "4", "5", "6", "7", "8", "9"}

U64MaxDigits == <<"1","8","4","4","6","7","4","4","0","7","3","7","0","9","5","5","1","6","1","5">>

DigitVal(d) ==
    CASE d = "0" -> 0 [] d = "1" -> 1 [] d = "2" -> 2 [] d = "3" -> 3 [] d = "4" -> 4
      [] d = "5" -> 5 [] d = "6" -> 6 [] d = "7" -> 7 [] d = "8" -> 8 [] OTHER -> 9

RECURSIVE StripZeros(_)
StripZeros(s) == IF Len(s) > 1 /\ s[1] = "0" THEN StripZeros(Tail(s)) ELSE s

\* a <= b for digit strings of the same length
RECURSIVE DigitsLeq(_, _)
DigitsLeq(a, b) ==
    IF Len(a) = 0 THEN TRUE
    ELSE IF DigitVal(a[1]) < DigitVal(b[1]) THEN TRUE
    ELSE IF DigitVal(a[1]) > DigitVal(b[1]) THEN FALSE
    ELSE DigitsLeq(Tail(a), Tail(b))

ParsesAsU64(item) ==
    LET body == IF Len(item) > 0 /\ item[1] = "+" THEN Tail(item) ELSE item
        sig == StripZeros(body)
    IN  /\ Len(body) > 0
        /\ \A i \in 1..Len(body) : body[i] \in Digits
        /\ \/ Len(sig) < Len(U64MaxDigits)
           \/ Len(sig) = Len(U64MaxDigits) /\ DigitsLeq(sig, U64MaxDigits)

----------------------------------------------------------------------------
(* Schema *)

Keywords == {"pk", "fk", "num", "txt"}

TextMaxLimit == 50

\* column information that is nullable whatever the caller asks for
ColumnInformationNullable(datatype, max_limit, nullable) ==
    [datatype |-> datatype, max_limit |-> max_limit, nullable |-> TRUE,
     foreign_key_constraint |-> None]

ColumnInformation(datatype, max_limit, nullable) ==
    [datatype |-> datatype, max_limit |-> max_limit, nullable |-> nullable,
     foreign_key_constraint |-> None]

ForeignKeyConstraint(table_name, column_name) ==
    [table_name |-> table_name, column_name |-> column_name, column_index |-> None]

ColumnNames(schema) == [i \in 1..Len(schema) |-> schema[i].name]

\* Schema::get_foreign_key_constraints: (0-based column index, constraint) pairs in order
RECURSIVE FkConstraintsFrom(_, _)
FkConstraintsFrom(schema, i) ==
    IF i > Len(schema) THEN <<>>
    ELSE IF IsSome(schema[i].info.foreign_key_constraint)
         THEN <<[index |-> i - 1, constraint |-> Unwrap(schema[i].info.foreign_key_constraint)]>>
              \o FkConstraintsFrom(schema, i + 1)
         ELSE FkConstraintsFrom(schema, i + 1)

get_foreign_key_constraints(schema) == FkConstraintsFrom(schema, 1)

\* Schema::get_foreign_key_constraint: find_map stops at the first column of that
\* name which carries a constraint
RECURSIVE FkConstraintFrom(_, _, _)
FkConstraintFrom(schema, column_name, i) ==
    IF i > Len(schema) THEN None
    ELSE IF schema[i].name = column_name /\ IsSome(schema[i].info.foreign_key_constraint)
         THEN schema[i].info.foreign_key_constraint
         ELSE FkConstraintFrom(schema, column_name, i + 1)

get_foreign_key_constraint(schema, column_name) == FkConstraintFrom(schema, column_name, 1)

\* Schema::update_foreign_key_index
schema_update_foreign_key_index(schema, schema_index, key_index) ==
    IF schema_index + 1 \in 1..Len(schema)
    THEN [schema EXCEPT ![schema_index + 1].info.foreign_key_constraint =
              Some([Unwrap(@) EXCEPT !.column_index = Some(key_index)])]
    ELSE schema

----------------------------------------------------------------------------
(* Index *)

IndexNew == [k \in {} |-> 0]

index_insert(index, key, pos) ==
    [k \in (DOMAIN index) \cup {key} |-> IF k = key THEN pos ELSE index[k]]

index_get(index, key) == IF key \in DOMAIN index THEN Some(index[key]) ELSE None

index_remove(index, key) == [k \in (DOMAIN index) \ {key} |-> index[k]]

\* shift_index_back with the comparison turned round
shift_index_back_flipped(index, start_index) ==
    [k \in DOMAIN index |-> IF index[k] < start_index THEN index[k] - 1 ELSE index[k]]

shift_index_back(index, start_index) ==
    [k \in DOMAIN index |-> IF index[k] > start_index THEN index[k] - 1 ELSE index[k]]

----------------------------------------------------------------------------
(* Table: construction *)

\* str::split(".") of the reference tokens the model uses; a token without a dot
\* splits into itself
SplitDot(tok) ==
    CASE tok = "p.id" -> <<"p", "id">>
      [] tok = "p.name" -> <<"p", "name">>
      [] tok = "p.zz" -> <<"p", "zz">>
      [] tok = "c.id" -> <<"c", "id">>
      [] tok = "q.id" -> <<"q", "id">>
      [] tok = "t.id" -> <<"t", "id">>
      [] OTHER -> <<tok>>

\* Table::_parse_column on the tokens of col_def.split(" ")
\* key: None, Some([kind |-> "pk"]) or Some([kind |-> "fk", table, column])
_parse_column(col_def) ==
    LET col_name == col_def[1]
        has_type == Len(col_def) >= 2
        col_type == col_def[2]
        has_key == Len(col_def) >= 3
        col_key == col_def[3]
        datatype == IF ~has_type THEN None
                    ELSE IF col_type = "num" THEN Some("Number") ELSE Some("Text")
        fk_ref_args == SplitDot(col_def[4])
        parsed(key) == [r |-> Ok(0), column |-> Some(col_name), datatype |-> datatype, key |-> key]
        failed(m) == [r |-> Err(m), column |-> None, datatype |-> None, key |-> None]
    IN  IF col_name \in Keywords THEN failed("invalid input")
        ELSE IF has_type /\ col_type \notin {"num", "txt"} THEN failed("invalid datatype")
        ELSE IF ~has_key THEN parsed(None)
        ELSE IF col_key = "pk" THEN parsed(Some([kind |-> "pk", table |-> "", column |-> ""]))
        ELSE IF col_key = "fk"
             THEN IF Len(col_def) < 4 THEN failed("invalid reference table")
                  ELSE IF Len(fk_ref_args) = 2
                       THEN parsed(Some([kind |-> "fk", table |-> fk_ref_args[1],
                                         column |-> fk_ref_args[2]]))
                       ELSE failed("invalid reference")
        ELSE failed("invalid key type")

\* the loop of Table::new over columns[i..]: the schema and the primary-key
\* column indices built so far, or the first error
RECURSIVE NewColumns(_, _, _, _)
NewColumns(columns, i, schema, primary_key_columns) ==
    IF i > Len(columns)
    THEN [r |-> Ok(0), schema |-> schema, primary_key_columns |-> primary_key_columns]
    ELSE LET pc == _parse_column(columns[i])
             dt == Unwrap(pc.datatype)
             max_limit == IF dt = "Number" THEN None ELSE Some(TextMaxLimit)
             base == ColumnInformation(dt, max_limit, FALSE)
             is_pk == IsSome(pc.key) /\ Unwrap(pc.key).kind = "pk"
             is_fk == IsSome(pc.key) /\ Unwrap(pc.key).kind = "fk"
             col_info == IF is_fk
                         THEN [base EXCEPT !.foreign_key_constraint =
                                  Some(ForeignKeyConstraint(Unwrap(pc.key).table,
                                                            Unwrap(pc.key).column))]
                         ELSE base
         IN  IF pc.r.st # "ok"
             THEN [r |-> pc.r, schema |-> <<>>, primary_key_columns |-> <<>>]
             ELSE IF ~IsSome(pc.datatype)
             THEN [r |-> Panic("unwrap on None datatype"), schema |-> <<>>,
                   primary_key_columns |-> <<>>]
             ELSE NewColumns(columns, i + 1,
                             Append(schema, [name |-> Unwrap(pc.column), info |-> col_info]),
                             IF is_pk THEN Append(primary_key_columns, i - 1)
                             ELSE primary_key_columns)

NoTable ==
    [name |-> "", schema |-> <<>>, rows |-> <<>>, primary_key_columns |-> <<>>,
     is_indexed |-> FALSE, index |-> IndexNew]

\* Table::new
TableNew(name, columns) ==
    IF Len(columns) = 0 THEN [r |-> Err("invalid arguments"), t |-> NoTable]
    ELSE LET b == NewColumns(columns, 1, <<>>, <<>>)
         IN  IF b.r.st # "ok" THEN [r |-> b.r, t |-> NoTable]
             ELSE [r |-> Ok(0),
                   t |-> [name |-> name, schema |-> b.schema, rows |-> <<>>,
                          primary_key_columns |->
                              IF Len(b.primary_key_columns) = 0 THEN <<0>>
                              ELSE b.primary_key_columns,
                          is_indexed |-> Len(b.primary_key_columns) # 0,
                          index |-> IndexNew]]

----------------------------------------------------------------------------
(* Table: validation and key lookup *)

\* _validate_field without its datatype checks
_validate_field_lax(item, col_info) ==
    IF Len(item) = 0 /\ col_info.nullable THEN [r |-> Ok(0), cell |-> None]
    ELSE IF Len(item) = 0 /\ ~col_info.nullable THEN [r |-> Err("invalid NULL"), cell |-> None]
    ELSE [r |-> Ok(0), cell |-> Some(item)]

\* Table::_validate_field: the cell to store, or the error
_validate_field(item, col_info) ==
    IF Len(item) = 0 /\ col_info.nullable THEN [r |-> Ok(0), cell |-> None]
    ELSE IF Len(item) = 0 /\ ~col_info.nullable THEN [r |-> Err("invalid NULL"), cell |-> None]
    ELSE IF col_info.datatype = "Number" /\ ~ParsesAsU64(item)
         THEN [r |-> Err("invalid value"), cell |-> None]
    ELSE IF col_info.datatype = "Text" /\ IsSome(col_info.max_limit)
            /\ Len(item) > Unwrap(col_info.max_limit)
         THEN [r |-> Err("invalid value"), cell |-> None]
    ELSE [r |-> Ok(0), cell |-> Some(item)]

RECURSIVE ValidateCells(_, _, _, _)
ValidateCells(schema, data, i, row) ==
    IF i > Len(data) THEN [r |-> Ok(0), row |-> row]
    ELSE LET f == _validate_field(data[i], schema[i].info)
         IN  IF f.r.st # "ok" THEN [r |-> f.r, row |-> <<>>]
             ELSE ValidateCells(schema, data, i + 1, Append(row, f.cell))

\* Table::_validate_data
_validate_data(t, data) ==
    IF Len(data) # Len(t.schema) THEN [r |-> Err("invalid data"), row |-> <<>>]
    ELSE ValidateCells(t.schema, data, 1, <<>>)

\* Table::_create_index_key_from_row: unwrap panics on a null key cell
_create_index_key_from_row(t, row) ==
    LET pkc == t.primary_key_columns
    IN  IF \E i \in 1..Len(pkc) : pkc[i] + 1 > Len(row) \/ ~IsSome(row[pkc[i] + 1])
        THEN [r |-> Panic("unwrap on None key cell"), key |-> <<>>]
        ELSE [r |-> Ok(0), key |-> JoinBar([i \in 1..Len(pkc) |-> Unwrap(row[pkc[i] + 1])])]

\* Table::_extract_pk_values: filter_map skips cells that are absent or null
RECURSIVE ExtractPkFrom(_, _, _)
ExtractPkFrom(pkc, row, i) ==
    IF i > Len(pkc) THEN <<>>
    ELSE IF pkc[i] + 1 <= Len(row) /\ IsSome(row[pkc[i] + 1])
         THEN <<Unwrap(row[pkc[i] + 1])>> \o ExtractPkFrom(pkc, row, i + 1)
         ELSE ExtractPkFrom(pkc, row, i + 1)

_extract_pk_values(t, row) == ExtractPkFrom(t.primary_key_columns, row, 1)

\* the primary-key string of a row
PkString(t, row) == JoinBar(_extract_pk_values(t, row))

\* Table::_find_row_unindexed
_find_row_unindexed(t, keys) ==
    Position([i \in 1..Len(t.rows) |-> PkString(t, t.rows[i])], JoinBar(keys))

\* Table::_find_row
_find_row(t, pk) ==
    IF t.is_indexed THEN index_get(t.index, JoinBar(pk)) ELSE _find_row_unindexed(t, pk)

\* Table::_validate_pk
_validate_pk(t, pk) ==
    IF t.is_indexed /\ Len(pk) # Len(t.primary_key_columns) THEN Err("err: invalid key arguments")
    ELSE IF Len(pk) = 0 THEN Err("err: need a key")
    ELSE Ok(0)

\* Table::pk_exists
pk_exists(t, pk) == IsSome(index_get(t.index, pk))

----------------------------------------------------------------------------
(* Row predicates: the closures built by SqlExecutor::_parse_selection.      *)
(* [op |-> "Eq" | "NotEq", col_index, value] and [op |-> "And" | "Or", l, r] *)

RECURSIVE EvalFilter(_, _)
EvalFilter(f, row) ==
    CASE f.op = "Or" -> EvalFilter(f.l, row) \/ EvalFilter(f.r, row)
      [] f.op = "And" -> EvalFilter(f.l, row) /\ EvalFilter(f.r, row)
      [] f.op = "Eq" ->
            /\ f.col_index + 1 <= Len(row)
            /\ IsSome(row[f.col_index + 1])
            /\ Unwrap(row[f.col_index + 1]) = f.value
      [] OTHER ->
            /\ f.col_index + 1 <= Len(row)
            /\ IsSome(row[f.col_index + 1])
            /\ Unwrap(row[f.col_index + 1]) # f.value

\* rows.iter().filter(|row| filter(row))
RECURSIVE FilterRows(_, _)
FilterRows(rows, f) ==
    IF Len(rows) = 0 THEN <<>>
    ELSE IF EvalFilter(f, rows[1]) THEN <<rows[1]>> \o FilterRows(Tail(rows), f)
    ELSE FilterRows(Tail(rows), f)

----------------------------------------------------------------------------
(* Table: mutation.  Each operator yields [t |-> the table afterwards,      *)
(* r |-> the Result returned].                                              *)

\* Table::insert
insert(t, data) ==
    LET v == _validate_data(t, data)
        row_index == Len(t.rows)
        k == _create_index_key_from_row(t, v.row)
    IN  IF v.r.st # "ok" THEN [t |-> t, r |-> v.r]
        ELSE IF t.is_indexed /\ k.r.st # "ok" THEN [t |-> t, r |-> k.r]
        ELSE [t |-> [t EXCEPT !.index = IF t.is_indexed
                                         THEN index_insert(t.index, k.key, row_index)
                                         ELSE @,
                               !.rows = Append(@, v.row)],
              r |-> Ok(1)]

\* Table::insert_many: stops at the first row that fails, keeps the earlier ones
RECURSIVE InsertManyFrom(_, _, _)
InsertManyFrom(t, values, i) ==
    IF i > Len(values) THEN [t |-> t, r |-> Ok(i - 1)]
    ELSE LET one == insert(t, values[i])
         IN  IF one.r.st # "ok" THEN one
             ELSE InsertManyFrom(one.t, values, i + 1)

\* insert_many made atomic: a failure takes the earlier rows of the batch back
insert_many_atomic(t, values) ==
    LET out == InsertManyFrom(t, values, 1)
    IN  IF out.r.st = "ok" THEN out ELSE [t |-> t, r |-> out.r]

insert_many(t, values) == InsertManyFrom(t, values, 1)

\* the loop of Table::update over the entries of the updates map, visited in `order`
RECURSIVE UpdateColumns(_, _, _, _, _)
UpdateColumns(t, row_index, updates, order, i) ==
    IF i > Len(order) THEN [t |-> t, r |-> Ok(i - 1)]
    ELSE LET col_name == order[i]
             index == Position(ColumnNames(t.schema), col_name)
             f == _validate_field(updates[col_name], t.schema[Unwrap(index) + 1].info)
         IN  IF ~IsSome(index) THEN [t |-> t, r |-> Err("unexpected column")]
             ELSE IF f.r.st # "ok" THEN [t |-> t, r |-> f.r]
             ELSE UpdateColumns(
                      [t EXCEPT !.rows[row_index + 1][Unwrap(index) + 1] = f.cell],
                      row_index, updates, order, i + 1)

\* Table::update
update(t, pk, updates, order) ==
    LET vp == _validate_pk(t, pk)
        found == _find_row(t, pk)
    IN  IF vp.st # "ok" THEN [t |-> t, r |-> vp]
        ELSE IF ~IsSome(found) THEN [t |-> t, r |-> Panic("unwrap on None row index")]
        ELSE IF Unwrap(found) >= Len(t.rows) THEN [t |-> t, r |-> Panic("unwrap on None row")]
        ELSE UpdateColumns(t, Unwrap(found), updates, order, 1)

\* the primary keys of the rows, as collected before a bulk write
PksOf(t, rows) == [i \in 1..Len(rows) |-> _extract_pk_values(t, rows[i])]

\* Table::filter_rows
filter_rows(t, filter) == PksOf(t, FilterRows(t.rows, filter))

RECURSIVE UpdateEach(_, _, _, _, _)
UpdateEach(t, pks, updates, order, i) ==
    IF i > Len(pks) THEN [t |-> t, r |-> Ok(i - 1)]
    ELSE LET one == update(t, pks[i], updates, order)
         IN  IF one.r.st # "ok" THEN one
             ELSE UpdateEach(one.t, pks, updates, order, i + 1)

\* Table::update_all
update_all(t, updates, order) == UpdateEach(t, PksOf(t, t.rows), updates, order, 1)

\* Table::delete without rows.remove: the key leaves the index, the row stays
delete_index_only(t, pk) ==
    LET vp == _validate_pk(t, pk)
        found == _find_row(t, pk)
    IN  IF vp.st # "ok" THEN [t |-> t, r |-> vp]
        ELSE IF ~IsSome(found) THEN [t |-> t, r |-> Err("err: invalid key; no match")]
        ELSE [t |-> [t EXCEPT !.index = IF t.is_indexed THEN index_remove(@, JoinBar(pk))
                                                          ELSE @],
              r |-> Ok(1)]

\* Table::delete
delete(t, pk) ==
    LET vp == _validate_pk(t, pk)
        key == JoinBar(pk)
        found == _find_row(t, pk)
        index == Unwrap(found)
    IN  IF vp.st # "ok" THEN [t |-> t, r |-> vp]
        ELSE IF ~IsSome(found) THEN [t |-> t, r |-> Err("err: invalid key; no match")]
        ELSE IF index >= Len(t.rows) THEN [t |-> t, r |-> Panic("removal index out of bounds")]
        ELSE [t |-> [t EXCEPT !.rows = RemoveAt(@, index),
                               !.index = IF t.is_indexed
                                         THEN shift_index_back(index_remove(@, key), index)
                                         ELSE @],
              r |-> Ok(1)]

RECURSIVE DeleteEach(_, _, _)
DeleteEach(t, pks, i) ==
    IF i > Len(pks) THEN [t |-> t, r |-> Ok(i - 1)]
    ELSE LET one == delete(t, pks[i])
         IN  IF one.r.st # "ok" THEN one
             ELSE DeleteEach(one.t, pks, i + 1)

\* Table::delete_with_filter
delete_with_filter(t, filter) == DeleteEach(t, filter_rows(t, filter), 1)

\* Table::delete_all
delete_all(t) == [t |-> [t EXCEPT !.rows = <<>>], r |-> Ok(Len(t.rows))]

----------------------------------------------------------------------------
(* Database.  `db` is Database.tables, a function from the names of the     *)
(* stored tables to the tables.  Each operator yields [db |-> the tables    *)
(* afterwards, r |-> the Result returned].                                  *)

DatabaseNew == [n \in {} |-> NoTable]

contains_table(db, table_name) == table_name \in DOMAIN db

\* HashMap::insert on Database.tables
tables_insert(db, name, t) == [n \in (DOMAIN db) \cup {name} |-> IF n = name THEN t ELSE db[n]]

\* Database::_validate_foreign_key_constraint
_validate_foreign_key_constraint(db, constraint) ==
    IF contains_table(db, constraint.table_name)
    THEN LET index == Position(ColumnNames(db[constraint.table_name].schema),
                               constraint.column_name)
         IN  IF IsSome(index) THEN Ok(Unwrap(index)) ELSE Err("invalid foreign key")
    ELSE Err("invalid foreign key")

\* Database::_validate_foreign_key: r.n = 1 for Ok(true), 0 for Ok(false)
_validate_foreign_key(db, table_name, value) ==
    IF ~contains_table(db, table_name) THEN Err("err: does not exist: table")
    ELSE Ok(IF pk_exists(db[table_name], value) THEN 1 ELSE 0)

\* the loop of Database::create_table over the foreign-key constraints
RECURSIVE ResolveConstraints(_, _, _, _)
ResolveConstraints(db, t, constraints, i) ==
    IF i > Len(constraints) THEN t
    ELSE LET v == _validate_foreign_key_constraint(db, constraints[i].constraint)
         IN  ResolveConstraints(db,
                 IF v.st = "ok"
                 THEN [t EXCEPT !.schema =
                          schema_update_foreign_key_index(@, constraints[i].index, v.n)]
                 ELSE t,
                 constraints, i + 1)

\* Database::create_table
create_table(db, name, column_definitions) ==
    LET made == TableNew(name, column_definitions)
        table == ResolveConstraints(db, made.t,
                                    get_foreign_key_constraints(made.t.schema), 1)
    IN  IF made.r.st # "ok" THEN [db |-> db, r |-> made.r]
        ELSE [db |-> tables_insert(db, name, table), r |-> Ok(0)]

\* the foreign-key loop of Database::insert_into_table: Ok, or the first error
RECURSIVE CheckInsertConstraints(_, _, _, _)
CheckInsertConstraints(db, constraints, data, i) ==
    IF i > Len(constraints) THEN Ok(0)
    ELSE LET index == constraints[i].index
             v == _validate_foreign_key(db, constraints[i].constraint.table_name,
                                        data[index + 1])
         IN  IF index + 1 > Len(data) THEN Err("err: out of bound")
             ELSE IF v.st # "ok" THEN v
             ELSE IF v.n = 0 THEN Err("err: does not exist")
             ELSE CheckInsertConstraints(db, constraints, data, i + 1)

\* Database::insert_into_table
insert_into_table(db, table_name, data) ==
    IF ~contains_table(db, table_name) THEN [db |-> db, r |-> Panic("unwrap on None table")]
    ELSE LET c == CheckInsertConstraints(
                      db, get_foreign_key_constraints(db[table_name].schema), data, 1)
             ins == insert(db[table_name], data)
         IN  IF c.st # "ok" THEN [db |-> db, r |-> c]
             ELSE [db |-> [db EXCEPT ![table_name] = ins.t],
                   r |-> IF ins.r.st = "ok" THEN Ok(0) ELSE ins.r]

\* Database::insert_many_into_table
RECURSIVE InsertManyIntoFrom(_, _, _, _)
InsertManyIntoFrom(db, table_name, rows, i) ==
    IF i > Len(rows) THEN [db |-> db, r |-> Ok(i - 1)]
    ELSE LET one == insert_into_table(db, table_name, rows[i])
         IN  IF one.r.st # "ok" THEN one
             ELSE InsertManyIntoFrom(one.db, table_name, rows, i + 1)

insert_many_into_table(db, table_name, rows) == InsertManyIntoFrom(db, table_name, rows, 1)

\* the foreign-key loop of Database::update_table_set.  The caller holds the
\* write lock of table_name: asking for the read lock of that same table
\* never returns.
RECURSIVE CheckUpdateConstraints(_, _, _, _, _)
CheckUpdateConstraints(db, table_name, data, order, i) ==
    IF i > Len(order) THEN Ok(0)
    ELSE LET c == get_foreign_key_constraint(db[table_name].schema, order[i])
             ref == Unwrap(c).table_name
             v == _validate_foreign_key(db, ref, data[order[i]])
         IN  IF ~IsSome(c) THEN CheckUpdateConstraints(db, table_name, data, order, i + 1)
             ELSE IF contains_table(db, ref) /\ ref = table_name
                  THEN [st |-> "deadlock", err |-> "read lock under own write lock", n |-> 0]
             ELSE IF v.st # "ok" THEN v
             ELSE IF v.n = 0 THEN Err("err: does not exist")
             ELSE CheckUpdateConstraints(db, table_name, data, order, i + 1)

\* Database::update_table_set
update_table_set(db, table_name, pk, data, order) ==
    IF ~contains_table(db, table_name) THEN [db |-> db, r |-> Err("err: does not exist: table")]
    ELSE LET c == CheckUpdateConstraints(db, table_name, data, order, 1)
             upd == update(db[table_name], pk, data, order)
         IN  IF c.st # "ok" THEN [db |-> db, r |-> c]
             ELSE [db |-> [db EXCEPT ![table_name] = upd.t], r |-> upd.r]

RECURSIVE UpdateSetEach(_, _, _, _, _, _)
UpdateSetEach(db, table_name, pks, updates, order, i) ==
    IF i > Len(pks) THEN [db |-> db, r |-> Ok(i - 1)]
    ELSE LET one == update_table_set(db, table_name, pks[i], updates, order)
         IN  IF one.r.st # "ok" THEN one
             ELSE UpdateSetEach(one.db, table_name, pks, updates, order, i + 1)

\* Database::update_table_set_with_filters; filter is an Option
update_table_set_with_filters(db, table_name, filter, updates, order) ==
    IF ~contains_table(db, table_name) THEN [db |-> db, r |-> Err("err: does not exist: table")]
    ELSE IF IsSome(filter)
         THEN UpdateSetEach(db, table_name, filter_rows(db[table_name], Unwrap(filter)),
                            updates, order, 1)
         ELSE LET all == update_all(db[table_name], updates, order)
              IN  [db |-> [db EXCEPT ![table_name] = all.t], r |-> all.r]

\* Database::delete_from_table_value
delete_from_table_value(db, table_name, pk) ==
    IF ~contains_table(db, table_name) THEN [db |-> db, r |-> Err("err: does not exist: table")]
    ELSE LET del == delete(db[table_name], pk)
         IN  [db |-> [db EXCEPT ![table_name] = del.t], r |-> del.r]

\* Database::delete_from_table_values
RECURSIVE DeleteValuesFrom(_, _, _, _)
DeleteValuesFrom(db, table_name, pks, i) ==
    IF i > Len(pks) THEN [db |-> db, r |-> Ok(i - 1)]
    ELSE LET one == delete_from_table_value(db, table_name, pks[i])
         IN  IF one.r.st # "ok" THEN one
             ELSE DeleteValuesFrom(one.db, table_name, pks, i + 1)

delete_from_table_values(db, table_name, pks) == DeleteValuesFrom(db, table_name, pks, 1)

\* Database::delete_from_table_with_filter; filter is an Option
delete_from_table_with_filter(db, table_name, filter) ==
    IF ~contains_table(db, table_name) THEN [db |-> db, r |-> Panic("unwrap on None table")]
    ELSE LET del == IF IsSome(filter)
                    THEN delete_with_filter(db[table_name], Unwrap(filter))
                    ELSE delete_all(db[table_name])
         IN  [db |-> [db EXCEPT ![table_name] = del.t], r |-> del.r]

----------------------------------------------------------------------------
(* Inputs of the model *)

S1 == <<"1">>

S2 == <<"2">>

SX == <<"x">>

Empty == <<>>

\* a text one character longer than the limit Table::new gives a txt column
Long == [i \in 1..51 |-> "a"]

\* column definitions, as the tokens of each "name type [key] [ref]" string
DefP == << <<"id", "num", "pk">>, <<"name", "txt">> >>

DefU == << <<"id", "num">>, <<"name", "txt">> >>

\* two columns of one name
DefDup == << <<"id", "num", "pk">>, <<"id", "txt">> >>

DefC == << <<"id", "num", "pk">>, <<"pid", "num", "fk", "p.id">> >>

\* rows offered to insert: valid ones, a non-number, an empty cell, a short row,
\* an over-long text
DataRows ==
    {<<S1, S1>>, <<S1, S2>>, <<S2, S1>>, <<SX, S1>>, <<S1, Empty>>, <<S1>>, <<S1, Long>>}

\* batches offered to the bulk inserts
DataBatches ==
    {<< <<S1, S1>>, <<S2, S1>> >>, << <<S1, S1>>, <<S1, S2>> >>,
     << <<S2, S1>>, <<SX, S1>>, <<S1, S1>> >>, << <<S2, S1>> >>}

\* primary keys offered to update and delete
PkArgs == {<<S1>>, <<S2>>, <<S1, S1>>, <<>>}

Eq(col_index, value) == [op |-> "Eq", col_index |-> col_index, value |-> value]

NotEq(col_index, value) == [op |-> "NotEq", col_index |-> col_index, value |-> value]

Or(l, r) == [op |-> "Or", l |-> l, r |-> r]

And(l, r) == [op |-> "And", l |-> l, r |-> r]

\* row predicates offered to the Table and Database calls that take a closure
Filters == {Eq(0, S1), NotEq(0, S1), Eq(1, S1), Or(Eq(0, S1), Eq(0, S2))}

\* update maps (column name -> new text)
UpdateMaps ==
    {[c \in {"name"} |-> S2], [c \in {"id"} |-> S2], [c \in {"name"} |-> Empty],
     [c \in {"name"} |-> Long],
     [c \in {"zz"} |-> S1], [c \in {"name", "id"} |-> IF c = "name" THEN S2 ELSE SX]}

----------------------------------------------------------------------------
(* State.                                                                   *)
(*   tables  Database.tables (for the Table-level specification, the one    *)
(*           table under the name "t")                                      *)
(*   reader  the TableReader in hand, as an Option                          *)
(*   last    the last call: its name, the table it addressed, its argument  *)
(*           and the Result it returned                                     *)

Call(op, table, arg, r) == [op |-> op, table |-> table, arg |-> arg, r |-> r]

\* a panic or a self-deadlock ends the process: no call follows it
Running == last.r.st \in {"ok", "err"}

TableInit == {"t" :> TableNew("t", d).t : d \in {DefP, DefU, DefDup}}

Init ==
    /\ tables \in TableInit
    /\ reader = None
    /\ registry = <<>>
    /\ session = [active_database |-> <<>>]
    /\ locks = <<>>
    /\ threads = <<>>
    /\ last = Call("new", "t", <<>>, Ok(0))

\* a call on the Table stored under the name n
TableCall(n, op, arg, out) ==
    /\ tables' = [tables EXCEPT ![n] = out.t]
    /\ last' = Call(op, n, arg, out.r)
    /\ UNCHANGED <<reader, registry, session, locks, threads>>

Insert(n, data) ==
    /\ Running
    /\ Len(tables[n].rows) < MaxRows
    /\ TableCall(n, "insert", data, insert(tables[n], data))

InsertMany(n, values) ==
    /\ Running
    /\ Len(tables[n].rows) + Len(values) <= MaxRows + 1
    /\ Len(insert_many(tables[n], values).t.rows) <= MaxRows
    /\ TableCall(n, "insert_many", values, insert_many(tables[n], values))

Update(n, pk, updates, order) ==
    /\ Running
    /\ TableCall(n, "update", pk,
                 update(tables[n], pk, updates, order))

UpdateAll(n, updates, order) ==
    /\ Running
    /\ TableCall(n, "update_all", <<>>,
                 update_all(tables[n], updates, order))

Delete(n, pk) ==
    /\ Running
    /\ TableCall(n, "delete", pk, delete(tables[n], pk))

DeleteWithFilter(n, filter) ==
    /\ Running
    /\ TableCall(n, "delete_with_filter", filter, delete_with_filter(tables[n], filter))

DeleteAll(n) ==
    /\ Running
    /\ TableCall(n, "delete_all", <<>>, delete_all(tables[n]))

Next ==
    \/ \E data \in DataRows : Insert("t", data)
    \/ \E values \in DataBatches : InsertMany("t", values)
    \/ \E pk \in PkArgs, u \in UpdateMaps : \E order \in Orders(DOMAIN u) :
            Update("t", pk, u, order)
    \/ \E u \in UpdateMaps : \E order \in Orders(DOMAIN u) : UpdateAll("t", u, order)
    \/ \E pk \in PkArgs : Delete("t", pk)
    \/ \E f \in Filters : DeleteWithFilter("t", f)
    \/ DeleteAll("t")

Spec == Init /\ [][Next]_vars

----------------------------------------------------------------------------
(* Properties of the Table-level specification *)

\* the primary-key string of the data offered to insert, read at the key columns
DataPkString(t, data) ==
    JoinBar([i \in 1..Len(t.primary_key_columns) |-> data[t.primary_key_columns[i] + 1]])

RowKeys(t) == {PkString(t, t.rows[i]) : i \in 1..Len(t.rows)}

\* C1: in every reachable state of an indexed table, the row at position p with
\* primary-key string k satisfies index.get(k) = p.
C1_IndexMatchesRows ==
    \A n \in DOMAIN tables :
        LET t == tables[n]
        IN  t.is_indexed =>
                \A i \in 1..Len(t.rows) :
                    index_get(t.index, PkString(t, t.rows[i])) = Some(i - 1)

C2_NoTwoRowsSameKey ==
    \A n \in DOMAIN tables :
        LET t == tables[n]
        IN  t.is_indexed =>
                \A i, j \in 1..Len(t.rows) :
                    PkString(t, t.rows[i]) = PkString(t, t.rows[j]) => i = j

\* C2: an insert whose primary-key string equals that of a row already in an
\* indexed table is rejected with an error and leaves rows and index unchanged,
\* and so no reachable state of an indexed table holds two rows with one key.
C2_DuplicateInsertRejected ==
    /\ [][(/\ last'.op = "insert"
           /\ tables[last'.table].is_indexed
           /\ Len(last'.arg) = Len(tables[last'.table].schema)
           /\ DataPkString(tables[last'.table], last'.arg) \in RowKeys(tables[last'.table]))
          => (last'.r.st = "err" /\ tables' = tables)]_vars
    /\ []C2_NoTwoRowsSameKey

\* C10: a successful delete of the row at position p of an indexed table leaves
\* the deleted key out of the index, moves every surviving key that stood behind
\* p one position down, keeps every surviving key that stood before p, and
\* leaves the rows vector as the prior one without its element p.
C10_DeleteShiftsIndex ==
    [][(last'.op = "delete" /\ last'.r.st = "ok" /\ tables[last'.table].is_indexed)
       => LET t == tables[last'.table]
              t2 == tables'[last'.table]
              key == JoinBar(last'.arg)
              p == t.index[key]
          IN  /\ key \notin DOMAIN t2.index
              /\ \A k \in DOMAIN t2.index :
                    /\ k \in DOMAIN t.index
                    /\ t.index[k] > p => t2.index[k] = t.index[k] - 1
                    /\ t.index[k] < p => t2.index[k] = t.index[k]
              /\ Len(t2.rows) = Len(t.rows) - 1
              /\ \A i \in 1..Len(t2.rows) :
                    t2.rows[i] = IF i <= p THEN t.rows[i] ELSE t.rows[i + 1]]_vars

\* a row other than the last was deleted from an indexed table and a row behind
\* it survives at position 0
C10_Witness ==
    /\ last.op = "delete"
    /\ last.r.st = "ok"
    /\ last.arg = <<S1>>
    /\ tables[last.table].is_indexed
    /\ Len(tables[last.table].rows) = 1
    /\ index_get(tables[last.table].index, S2) = Some(0)

----------------------------------------------------------------------------
(* The Database-level specification: the tables "p" (parent) and "c"       *)
(* (child, whose column pid is a foreign key into p) behind the Database   *)
(* calls.                                                                   *)

DefBadColumn == << <<"id", "num", "pk">>, <<"pid", "num", "fk", "p.zz">> >>

DefBadType == << <<"id", "flt">> >>

\* (table name, column definitions) pairs offered to create_table
CreateArgs ==
    {<<"p", DefP>>, <<"c", DefC>>, <<"c", DefBadColumn>>, <<"c", DefBadType>>}

\* (table name, row data) pairs offered to insert_into_table
InsertArgs ==
    {<<"p", <<S1, S1>> >>, <<"p", <<S2, S1>> >>, <<"c", <<S1, S1>> >>, <<"c", <<S2, S2>> >>}

\* (table name, batch) pairs offered to insert_many_into_table
InsertManyArgs ==
    {<<"c", << <<S1, S1>>, <<S2, S2>>, <<S1, S1>> >> >>,
     <<"p", << <<S1, S1>>, <<S2, S1>> >> >>}

DbPkArgs == {<<S1>>, <<S2>>}

DbPkLists == {<< <<S1>>, <<S2>> >>}

\* (table name, column -> new value) pairs offered to the updates
DbUpdateArgs ==
    {<<"p", [c \in {"id"} |-> S2]>>, <<"c", [c \in {"pid"} |-> S2]>>}

\* Option<filter>: None is the call without a predicate
DbFilters == {None, Some(Eq(0, S1))}

InitDb ==
    /\ tables = DatabaseNew
    /\ reader = None
    /\ registry = <<>>
    /\ session = [active_database |-> <<>>]
    /\ locks = <<>>
    /\ threads = <<>>
    /\ last = Call("Database::new", "", <<>>, Ok(0))

\* a Database call addressing the table n
DbCall(n, op, arg, out) ==
    /\ tables' = out.db
    /\ last' = Call(op, n, arg, out.r)
    /\ UNCHANGED <<reader, registry, session, locks, threads>>

RowsWithin(db) == \A n \in DOMAIN db : Len(db[n].rows) <= MaxRows

DbCreateTable(n, defs) ==
    /\ Running
    /\ DbCall(n, "create_table", defs, create_table(tables, n, defs))

DbInsertIntoTable(n, data) ==
    LET out == insert_into_table(tables, n, data)
    IN  /\ Running
        /\ RowsWithin(out.db)
        /\ DbCall(n, "insert_into_table", data, out)

DbInsertManyIntoTable(n, rows) ==
    LET out == insert_many_into_table(tables, n, rows)
    IN  /\ Running
        /\ RowsWithin(out.db)
        /\ DbCall(n, "insert_many_into_table", rows, out)

DbUpdateTableSet(n, pk, data, order) ==
    /\ Running
    /\ DbCall(n, "update_table_set", <<>>, update_table_set(tables, n, pk, data, order))

DbUpdateTableSetWithFilters(n, filter, updates, order) ==
    /\ Running
    /\ DbCall(n, "update_table_set_with_filters", <<>>,
              update_table_set_with_filters(tables, n, filter, updates, order))

DbDeleteFromTableValue(n, pk) ==
    /\ Running
    /\ DbCall(n, "delete_from_table_value", <<>>, delete_from_table_value(tables, n, pk))

DbDeleteFromTableValues(n, pks) ==
    /\ Running
    /\ DbCall(n, "delete_from_table_values", <<>>, delete_from_table_values(tables, n, pks))

DbDeleteFromTableWithFilter(n, filter) ==
    /\ Running
    /\ DbCall(n, "delete_from_table_with_filter", <<>>,
              delete_from_table_with_filter(tables, n, filter))

TableNames == {"p", "c"}

NextDb ==
    \/ \E a \in CreateArgs : DbCreateTable(a[1], a[2])
    \/ \E a \in InsertArgs : DbInsertIntoTable(a[1], a[2])
    \/ \E a \in InsertManyArgs : DbInsertManyIntoTable(a[1], a[2])
    \/ \E a \in DbUpdateArgs, pk \in DbPkArgs : \E order \in Orders(DOMAIN a[2]) :
            DbUpdateTableSet(a[1], pk, a[2], order)
    \/ \E a \in DbUpdateArgs, f \in DbFilters : \E order \in Orders(DOMAIN a[2]) :
            DbUpdateTableSetWithFilters(a[1], f, a[2], order)
    \/ \E n \in TableNames, pk \in DbPkArgs : DbDeleteFromTableValue(n, pk)
    \/ \E n \in TableNames, pks \in DbPkLists : DbDeleteFromTableValues(n, pks)
    \/ \E n \in TableNames, f \in DbFilters : DbDeleteFromTableWithFilter(n, f)

SpecDb == InitDb /\ [][NextDb]_vars

----------------------------------------------------------------------------
(* Properties of the Database-level specification                          *)

FkWriteOps ==
    {"insert_into_table", "insert_many_into_table", "update_table_set",
     "update_table_set_with_filters"}

\* v is the primary-key string of some row of the table named ref
IsKeyOfRow(db, ref, v) == ref \in DOMAIN db /\ v \in RowKeys(db[ref])

\* C3: every successful write of a non-null value v into a foreign-key column,
\* by insert_into_table, insert_many_into_table, update_table_set or
\* update_table_set_with_filters (with or without a predicate), happens only
\* when v is the primary key of some row of the referenced table at that moment.
C3_FkWritesReferenceExistingKey ==
    [][(last'.op \in FkWriteOps /\ last'.table \in DOMAIN tables)
       => LET t == tables[last'.table]
              t2 == tables'[last'.table]
              fks == get_foreign_key_constraints(t.schema)
          IN  \A f \in 1..Len(fks) : \A i \in 1..Len(t2.rows) :
                 LET cell == t2.rows[i][fks[f].index + 1]
                     written == i > Len(t.rows) \/ t.rows[i][fks[f].index + 1] # cell
                 IN  (written /\ IsSome(cell))
                        => IsKeyOfRow(tables, fks[f].constraint.table_name, Unwrap(cell))]_vars

DoesNotExist == {"err: does not exist", "err: does not exist: table"}

\* the rows of a batch that come before index k, as stored rows
StoredPrefix(rows, k) ==
    [j \in 1..(k - 1) |-> [x \in 1..Len(rows[j]) |-> Some(rows[j][x])]]

\* data carries a foreign-key cell that is no primary key of the referenced table
Offends(db, n, data) ==
    LET fks == get_foreign_key_constraints(db[n].schema)
    IN  \E f \in 1..Len(fks) :
           /\ fks[f].index + 1 <= Len(data)
           /\ ~IsKeyOfRow(db, fks[f].constraint.table_name, data[fks[f].index + 1])

\* C4: insert_into_table of a row whose foreign-key cell is not a primary key
\* of the referenced table returns the error 'does not exist' and leaves the
\* target table's rows and index unchanged; insert_many_into_table keeps the
\* rows before the offending one and inserts neither it nor the rows after it.
C4_MissingReferenceRejected ==
    [][/\ (last'.op = "insert_into_table" /\ last'.table \in DOMAIN tables
              /\ Offends(tables, last'.table, last'.arg))
          => /\ last'.r.st = "err"
             /\ last'.r.err \in DoesNotExist
             /\ tables' = tables
       /\ (last'.op = "insert_many_into_table" /\ last'.table \in DOMAIN tables
              /\ \E k \in 1..Len(last'.arg) : Offends(tables, last'.table, last'.arg[k]))
          => LET n == last'.table
                 k == CHOOSE k \in 1..Len(last'.arg) :
                         /\ Offends(tables, n, last'.arg[k])
                         /\ \A j \in 1..(k - 1) : ~Offends(tables, n, last'.arg[j])
             IN  /\ last'.r.st = "err"
                 /\ last'.r.err \in DoesNotExist
                 /\ tables'[n].rows = tables[n].rows \o StoredPrefix(last'.arg, k)
                 /\ \A m \in DOMAIN tables \ {n} : tables'[m] = tables[m]]_vars

\* the table or the column a foreign-key constraint names is not in the database
FkReferentMissing(db, constraint) ==
    \/ constraint.table_name \notin DOMAIN db
    \/ constraint.column_name \notin Range(ColumnNames(db[constraint.table_name].schema))

\* every foreign key of every stored table was resolved when the table was created
StoredFksResolved ==
    \A n \in DOMAIN tables :
        LET fks == get_foreign_key_constraints(tables[n].schema)
        IN  \A f \in 1..Len(fks) : IsSome(fks[f].constraint.column_index)

C9_ExistingNameRejected ==
    [][(last'.op = "create_table" /\ last'.table \in DOMAIN tables)
       => (last'.r.st = "err" /\ tables' = tables)]_vars

----------------------------------------------------------------------------
(* TableReader.  Its two handles, schema and rows, are Arc pointers: a     *)
(* reader from Table::reader holds the parent Table's own schema and rows  *)
(* (shared = TRUE, the contents are read from and written to the table),   *)
(* a derived reader holds vectors of its own.  Every reader operation      *)
(* returns [db, rd, r]: the database, Some(reader) or None, the Result.    *)

TableReader(tbl, schema_shared, rows_shared, schema, rows) ==
    [tbl |-> tbl, schema_shared |-> schema_shared, rows_shared |-> rows_shared,
     schema |-> schema, rows |-> rows]

\* Table::reader
table_reader(n) == TableReader(n, TRUE, TRUE, <<>>, <<>>)

ReaderSchema(db, rd) == IF rd.schema_shared THEN db[rd.tbl].schema ELSE rd.schema

\* TableReader::scan
scan(db, rd) == IF rd.rows_shared THEN db[rd.tbl].rows ELSE rd.rows

\* a reader that keeps the schema handle of rd and owns the new rows
WithOwnRows(rd, rows) == [rd EXCEPT !.rows_shared = FALSE, !.rows = rows]

\* TableReader::filter
reader_filter(db, rd, f) ==
    [db |-> db, rd |-> Some(WithOwnRows(rd, FilterRows(scan(db, rd), f))), r |-> Ok(0)]

\* TableReader::select: expect panics on a field that is not in the schema
reader_select(db, rd, fields) ==
    LET schema == ReaderSchema(db, rd)
        names == ColumnNames(schema)
        indices == [i \in 1..Len(fields) |-> Position(names, fields[i])]
        rows == scan(db, rd)
    IN  IF \E i \in 1..Len(fields) : ~IsSome(indices[i])
        THEN [db |-> db, rd |-> None, r |-> Panic("invalid column: does not exist")]
        ELSE [db |-> db,
              rd |-> Some(TableReader(rd.tbl, FALSE, FALSE,
                          [i \in 1..Len(fields) |-> schema[Unwrap(indices[i]) + 1]],
                          [j \in 1..Len(rows) |->
                              [i \in 1..Len(fields) |-> rows[j][Unwrap(indices[i]) + 1]]])),
              r |-> Ok(0)]

\* the characters of the model's strings, in byte order
ByteOrder == <<"+", "-", "0", "1", "2", "3", "4", "5", "6", "7", "8", "9", "x">>

Byte(c) == CHOOSE i \in 1..Len(ByteOrder) : ByteOrder[i] = c

\* Ord for String: -1, 0, 1 for Less, Equal, Greater
RECURSIVE StrCmp(_, _)
StrCmp(a, b) ==
    IF Len(a) = 0 /\ Len(b) = 0 THEN 0
    ELSE IF Len(a) = 0 THEN -1
    ELSE IF Len(b) = 0 THEN 1
    ELSE IF Byte(a[1]) < Byte(b[1]) THEN -1
    ELSE IF Byte(a[1]) > Byte(b[1]) THEN 1
    ELSE StrCmp(Tail(a), Tail(b))

\* Ord for Option<&Option<String>>, the value of row.0.get(col_index)
CellCmp(a, b, col_index) ==
    LET ga == IF col_index + 1 <= Len(a) THEN Some(a[col_index + 1]) ELSE None
        gb == IF col_index + 1 <= Len(b) THEN Some(b[col_index + 1]) ELSE None
    IN  IF ~IsSome(ga) \/ ~IsSome(gb)
        THEN (IF IsSome(ga) THEN 1 ELSE 0) - (IF IsSome(gb) THEN 1 ELSE 0)
        ELSE IF ~IsSome(Unwrap(ga)) \/ ~IsSome(Unwrap(gb))
        THEN (IF IsSome(Unwrap(ga)) THEN 1 ELSE 0) - (IF IsSome(Unwrap(gb)) THEN 1 ELSE 0)
        ELSE StrCmp(Unwrap(Unwrap(ga)), Unwrap(Unwrap(gb)))

\* the comparator closure of TableReader::order_by
RECURSIVE RowCmp(_, _, _, _)
RowCmp(a, b, sort_index, i) ==
    IF i > Len(sort_index) THEN 0
    ELSE LET cmp == CellCmp(a, b, sort_index[i][1])
             ordering == IF sort_index[i][2] THEN cmp ELSE 0 - cmp
         IN  IF ordering # 0 THEN ordering ELSE RowCmp(a, b, sort_index, i + 1)

\* sort_by is stable: a row goes after the rows that do not compare greater
RECURSIVE InsertSorted(_, _, _)
InsertSorted(sorted, row, sort_index) ==
    IF Len(sorted) = 0 THEN <<row>>
    ELSE IF RowCmp(sorted[Len(sorted)], row, sort_index, 1) <= 0 THEN Append(sorted, row)
    ELSE Append(InsertSorted(SubSeq(sorted, 1, Len(sorted) - 1), row, sort_index),
                sorted[Len(sorted)])

RECURSIVE SortBy(_, _)
SortBy(rows, sort_index) ==
    IF Len(rows) = 0 THEN <<>>
    ELSE InsertSorted(SortBy(SubSeq(rows, 1, Len(rows) - 1), sort_index),
                      rows[Len(rows)], sort_index)

\* order_by with a comparator that stops after the first key
reader_order_by_first_key(db, rd, sort_index) ==
    [db |-> db,
     rd |-> Some(WithOwnRows(rd, SortBy(scan(db, rd), SubSeq(sort_index, 1, 1)))),
     r |-> Ok(0)]

\* TableReader::order_by
reader_order_by(db, rd, sort_index) ==
    [db |-> db, rd |-> Some(WithOwnRows(rd, SortBy(scan(db, rd), sort_index))), r |-> Ok(0)]

Min(a, b) == IF a < b THEN a ELSE b

\* TableReader::limit: limit(None) hands the reader back as it is
reader_limit(db, rd, rows) ==
    IF ~IsSome(rows) THEN [db |-> db, rd |-> Some(rd), r |-> Ok(0)]
    ELSE LET _rl == scan(db, rd)
         IN  [db |-> db,
              rd |-> Some(WithOwnRows(rd, SubSeq(_rl, 1, Min(Unwrap(rows), Len(_rl))))),
              r |-> Ok(0)]

\* TableReader::offset: offset(None) hands the reader back as it is
reader_offset(db, rd, rows) ==
    IF ~IsSome(rows) THEN [db |-> db, rd |-> Some(rd), r |-> Ok(0)]
    ELSE LET _rl == scan(db, rd)
         IN  [db |-> db,
              rd |-> Some(WithOwnRows(rd, SubSeq(_rl, Min(Unwrap(rows), Len(_rl)) + 1, Len(_rl)))),
              r |-> Ok(0)]

\* usize::to_string
RECURSIVE to_string(_)
to_string(n) ==
    LET d == <<"0", "1", "2", "3", "4", "5", "6", "7", "8", "9">>[(n % 10) + 1]
    IN  IF n < 10 THEN <<d>> ELSE Append(to_string(n \div 10), d)

RECURSIVE DigitsValue(_, _)
DigitsValue(s, acc) ==
    IF Len(s) = 0 THEN acc ELSE DigitsValue(Tail(s), acc * 10 + DigitVal(s[1]))

\* str::parse::<usize>: Some(value) or None
ParseUsize(item) ==
    IF ParsesAsU64(item)
    THEN Some(DigitsValue(IF item[1] = "+" THEN Tail(item) ELSE item, 0))
    ELSE None

\* ColumnInformation::default(), the information of a computed column: its
\* datatype is left opaque, it carries no foreign-key constraint
ColumnInformationDefault ==
    [datatype |-> "Default", max_limit |-> None, nullable |-> FALSE,
     foreign_key_constraint |-> None]

\* scalars::add::run: every unwrap and expect of it is a panic
add_run(args, row) ==
    LET col_index == ParseUsize(args[1])
        add_value == ParseUsize(args[2])
        _v == row[Unwrap(col_index) + 1]
        value == ParseUsize(Unwrap(_v))
    IN  IF Len(args) < 1 THEN Panic("unwrap on None")
        ELSE IF ~IsSome(col_index) THEN Panic("No index specified.")
        ELSE IF Len(args) < 2 THEN Panic("unwrap on None")
        ELSE IF ~IsSome(add_value) THEN Panic("Strictly integer value allowed.")
        ELSE IF Unwrap(col_index) + 1 > Len(row) THEN Panic("unwrap on None")
        ELSE IF ~IsSome(_v) THEN Panic("unwrap on None")
        ELSE IF ~IsSome(value) THEN Panic("unwrap on Err")
        ELSE [st |-> "ok", err |-> "", n |-> 0,
              value |-> to_string(Unwrap(value) + Unwrap(add_value))]

\* scalars::get_runner: the name of the runner, to_uppercase of the known spellings
get_runner(name) ==
    IF name \in {"ADD", "add"} THEN Ok(0) ELSE Err("Unknown scalar function")

\* the loop of add_column_scalar over the rows: a panic leaves the rows before
\* the failing one with the new cell and the others without it
RECURSIVE ScalarRows(_, _, _, _)
ScalarRows(rows, args, i, done) ==
    IF i > Len(rows) THEN [rows |-> done, r |-> Ok(0)]
    ELSE LET value == add_run(args, rows[i])
         IN  IF value.st # "ok"
             THEN [rows |-> done \o SubSeq(rows, i, Len(rows)),
                   r |-> Panic(value.err)]
             ELSE ScalarRows(rows, args, i + 1,
                             Append(done, Append(rows[i], Some(value.value))))

\* TableReader::add_column_scalar: it writes through the handles the reader
\* holds, the parent Table's own vectors when they are shared
add_column_scalar(db, rd, col_name, col_info, args) ==
    LET schema == Append(ReaderSchema(db, rd), [name |-> col_name, info |-> col_info])
        done == ScalarRows(scan(db, rd), args, 1, <<>>)
        db1 == IF rd.schema_shared THEN [db EXCEPT ![rd.tbl].schema = schema] ELSE db
        db2 == IF rd.rows_shared THEN [db1 EXCEPT ![rd.tbl].rows = done.rows] ELSE db1
        rd2 == [rd EXCEPT !.schema = IF rd.schema_shared THEN @ ELSE schema,
                          !.rows = IF rd.rows_shared THEN @ ELSE done.rows]
    IN  [db |-> db2, rd |-> IF done.r.st = "ok" THEN Some(rd2) ELSE None, r |-> done.r]

\* the loop of perform_function over the arguments of one function
RECURSIVE SclrArgs(_, _, _, _)
SclrArgs(schema, args, index, sclr_args) ==
    IF index + 1 > Len(args) THEN [r |-> Ok(0), args |-> sclr_args]
    ELSE IF args[index + 1].kind = "Wildcard"
    THEN [r |-> Err("wildcard not allowed inside scalars"), args |-> <<>>]
    ELSE IF index = 0
    THEN LET col_index == Position(ColumnNames(schema), args[index + 1].column)
         IN  IF ~IsSome(col_index)
             THEN [r |-> Err("Column does not exist. Select it first."), args |-> <<>>]
             ELSE SclrArgs(schema, args, index + 1,
                           Append(sclr_args, to_string(Unwrap(col_index))))
    ELSE SclrArgs(schema, args, index + 1, Append(sclr_args, args[index + 1].column))

\* TableReader::perform_function: the functions are applied one after the other,
\* an error or a panic keeps what the earlier ones have written
RECURSIVE PerformFrom(_, _, _, _)
PerformFrom(db, rd, func_vec, i) ==
    IF i > Len(func_vec) THEN [db |-> db, rd |-> Some(rd), r |-> Ok(0)]
    ELSE IF func_vec[i].kind # "Function" THEN PerformFrom(db, rd, func_vec, i + 1)
    ELSE LET sclr == func_vec[i]
             a == SclrArgs(ReaderSchema(db, rd), sclr.args, 0, <<>>)
             out == add_column_scalar(db, rd,
                        IF IsSome(sclr.alias) THEN Unwrap(sclr.alias) ELSE sclr.name,
                        ColumnInformationDefault, a.args)
         IN  IF a.r.st # "ok" THEN [db |-> db, rd |-> None, r |-> a.r]
             ELSE IF get_runner(sclr.name).st # "ok"
             THEN [db |-> db, rd |-> None, r |-> Panic("unwrap on Err")]
             ELSE IF out.r.st # "ok" THEN out
             ELSE PerformFrom(out.db, Unwrap(out.rd), func_vec, i + 1)

perform_function(db, rd, func_vec) == PerformFrom(db, rd, func_vec, 1)

----------------------------------------------------------------------------
(* The reader specification: a chain of TableReader operations on the      *)
(* reader of the table "t", while the table takes inserts.                 *)

\* a bound on the number of columns a schema grows to
MaxCols == 3

Column(name) == [kind |-> "Column", name |-> name, alias |-> None]

ArgColumn(column) == [kind |-> "Column", column |-> column]

ArgWildcard == [kind |-> "Wildcard"]

Function(name, args) == [kind |-> "Function", name |-> name, args |-> args, alias |-> None]

\* a function call written with AS
FunctionAs(name, args, alias) ==
    [kind |-> "Function", name |-> name, args |-> args, alias |-> Some(alias)]

ReaderData == {<<S1, S1>>, <<S2, SX>>, <<S2, S1>>}

ReaderFilters == {Eq(0, S1), NotEq(1, S1)}

ReaderFields == {<<"name">>, <<"name", "id">>, <<"zz">>}

\* Vec<(usize, bool)>: column index and ascending flag
ReaderSortIndex == {<< <<0, FALSE>> >>, << <<1, TRUE>>, <<0, TRUE>> >>, << <<1, FALSE>> >>}

ReaderCounts == {None, Some(1)}

ReaderFunctions ==
    {<<Function("ADD", <<ArgColumn("id"), ArgColumn(S1)>>)>>,
     <<Function("ADD", <<ArgColumn("name"), ArgColumn(S1)>>)>>,
     <<Function("ADD", <<ArgColumn("zz"), ArgColumn(S1)>>)>>,
     <<Function("ADD", <<ArgWildcard>>)>>}

InitReader ==
    /\ tables = "t" :> TableNew("t", DefP).t
    /\ reader = None
    /\ registry = <<>>
    /\ session = [active_database |-> <<>>]
    /\ locks = <<>>
    /\ threads = <<>>
    /\ last = Call("new", "t", <<>>, Ok(0))

\* a TableReader operation consumes the reader and leaves its result
ReaderCall(op, out) ==
    /\ tables' = out.db
    /\ reader' = out.rd
    /\ UNCHANGED <<registry, session, locks, threads>>
    /\ last' = Call(op, Unwrap(reader).tbl, <<>>, out.r)

Reader(n) ==
    /\ Running
    /\ reader' = Some(table_reader(n))
    /\ last' = Call("reader", n, <<>>, Ok(0))
    /\ UNCHANGED <<tables, registry, session, locks, threads>>

ReaderFilter(f) ==
    /\ Running /\ IsSome(reader)
    /\ ReaderCall("filter", reader_filter(tables, Unwrap(reader), f))

ReaderSelect(fields) ==
    /\ Running /\ IsSome(reader)
    /\ ReaderCall("select", reader_select(tables, Unwrap(reader), fields))

ReaderOrderBy(sort_index) ==
    /\ Running /\ IsSome(reader)
    /\ ReaderCall("order_by", reader_order_by(tables, Unwrap(reader), sort_index))

ReaderLimit(rows) ==
    /\ Running /\ IsSome(reader)
    /\ ReaderCall("limit", reader_limit(tables, Unwrap(reader), rows))

ReaderOffset(rows) ==
    /\ Running /\ IsSome(reader)
    /\ ReaderCall("offset", reader_offset(tables, Unwrap(reader), rows))

ReaderPerformFunction(func_vec) ==
    /\ Running /\ IsSome(reader)
    /\ Len(ReaderSchema(tables, Unwrap(reader))) + Len(func_vec) <= MaxCols
    /\ ReaderCall("perform_function", perform_function(tables, Unwrap(reader), func_vec))

NextReader ==
    \/ \E data \in ReaderData : Insert("t", data)
    \/ Reader("t")
    \/ \E f \in ReaderFilters : ReaderFilter(f)
    \/ \E fields \in ReaderFields : ReaderSelect(fields)
    \/ \E sort_index \in ReaderSortIndex : ReaderOrderBy(sort_index)
    \/ \E rows \in ReaderCounts : ReaderLimit(rows)
    \/ \E rows \in ReaderCounts : ReaderOffset(rows)
    \/ \E func_vec \in ReaderFunctions : ReaderPerformFunction(func_vec)

SpecReader == InitReader /\ [][NextReader]_vars

ReaderOps == {"filter", "select", "order_by", "limit", "offset", "perform_function"}

\* C5: any chain of filter, select, order_by, limit, offset and perform_function
\* on a reader obtained from Table.reader(), limit(None) or offset(None) followed
\* by perform_function and perform_function applied directly included, leaves
\* the parent Table's schema and rows unchanged.
C5_ReaderLeavesParentUnchanged ==
    [][last'.op \in ReaderOps
       => /\ tables'[last'.table].schema = tables[last'.table].schema
          /\ tables'[last'.table].rows = tables[last'.table].rows]_vars

----------------------------------------------------------------------------
(* SqlExecutor::execute over the tables of the session's active database.  *)
(* Statements are given as their parsed form: the expressions of sqlparser *)
(* as records, the projection list as the SelectColumn values.             *)

Value(kind, value) == [kind |-> "Value", vkind |-> kind, value |-> value]

Identifier(value) == [kind |-> "Identifier", value |-> value]

UnaryOp(op, expr) == [kind |-> "UnaryOp", op |-> op, expr |-> expr]

BinaryOp(left, op, right) == [kind |-> "BinaryOp", left |-> left, op |-> op, right |-> right]

\* SqlExecutor::_parse_value
_parse_value(value) ==
    IF value.vkind \in {"Number", "SingleQuotedString", "DoubleQuotedString"}
    THEN [r |-> Ok(0), value |-> value.value]
    ELSE [r |-> Err("Unsupported value"), value |-> <<>>]

\* SqlExecutor::_parse_expr
RECURSIVE _parse_expr(_)
_parse_expr(expr) ==
    CASE expr.kind = "Value" -> _parse_value(expr)
      [] expr.kind = "Identifier" -> [r |-> Ok(0), value |-> expr.value]
      [] expr.kind = "UnaryOp" ->
            LET value == _parse_expr(expr.expr)
            IN  IF value.r.st # "ok" THEN value
                ELSE IF expr.op = "Minus"
                THEN [r |-> Ok(0), value |-> <<"-">> \o value.value]
                ELSE [r |-> Err("Unsupported unary operator."), value |-> <<>>]
      [] OTHER -> [r |-> Err("Unsupported value. Check your query."), value |-> <<>>]

\* SqlExecutor::_extract_row: collect stops at the first error
RECURSIVE _extract_row(_, _, _)
_extract_row(values, i, row) ==
    IF i > Len(values) THEN [r |-> Ok(0), row |-> row]
    ELSE LET e == _parse_expr(values[i])
         IN  IF e.r.st # "ok" THEN [r |-> e.r, row |-> <<>>]
             ELSE _extract_row(values, i + 1, Append(row, e.value))

\* SqlExecutor::_parse_operands
_parse_operands(left, right, table_schema_vec) ==
    LET col_name == _parse_expr(left)
        value == _parse_expr(right)
        col_index == Position(table_schema_vec, col_name.value)
    IN  IF col_name.r.st # "ok" THEN [r |-> col_name.r, col_index |-> 0, value |-> <<>>]
        ELSE IF value.r.st # "ok" THEN [r |-> value.r, col_index |-> 0, value |-> <<>>]
        ELSE IF ~IsSome(col_index)
        THEN [r |-> Err("Column does not exist!"), col_index |-> 0, value |-> <<>>]
        ELSE [r |-> Ok(0), col_index |-> Unwrap(col_index), value |-> value.value]

\* SqlExecutor::_parse_selection: the compiled closure is the filter f
RECURSIVE _parse_selection(_, _)
_parse_selection(selection, table_schema_vec) ==
    IF selection.kind # "BinaryOp"
    THEN [r |-> Err("Invalid column selection. Check your query."), f |-> <<>>]
    ELSE IF selection.op \in {"Or", "And"}
    THEN LET left_filter == _parse_selection(selection.left, table_schema_vec)
             right_filter == _parse_selection(selection.right, table_schema_vec)
         IN  IF left_filter.r.st # "ok" THEN left_filter
             ELSE IF right_filter.r.st # "ok" THEN right_filter
             ELSE [r |-> Ok(0),
                   f |-> [op |-> selection.op, l |-> left_filter.f, r |-> right_filter.f]]
    ELSE IF selection.op \in {"Eq", "NotEq"}
    THEN LET o == _parse_operands(selection.left, selection.right, table_schema_vec)
         IN  IF o.r.st # "ok" THEN [r |-> o.r, f |-> <<>>]
             ELSE [r |-> Ok(0),
                   f |-> [op |-> selection.op, col_index |-> o.col_index, value |-> o.value]]
    ELSE [r |-> Err("Invalid query filter. Check your query."), f |-> <<>>]

\* SqlExecutor::_parse_assignment
_parse_assignment(assignment) ==
    LET value == _parse_expr(assignment.value)
    IN  IF assignment.target.kind # "ColumnName"
        THEN [r |-> Err("Invalid column name. Check your query."), col |-> "", value |-> <<>>]
        ELSE IF value.r.st # "ok" THEN [r |-> value.r, col |-> "", value |-> <<>>]
        ELSE [r |-> Ok(0), col |-> assignment.target.name, value |-> value.value]

\* .ok() of the compiled WHERE clause: an error becomes None
SelectionFilter(selection, table_schema_vec) ==
    IF ~IsSome(selection) THEN None
    ELSE LET c == _parse_selection(Unwrap(selection), table_schema_vec)
         IN  IF c.r.st = "ok" THEN Some(c.f) ELSE None

\* the projection list split as the Column arm of Statement::Query does:
\* the names of the plain columns
RECURSIVE ColsOf(_)
ColsOf(column_names) ==
    IF Len(column_names) = 0 THEN <<>>
    ELSE IF column_names[1].kind = "Column"
         THEN <<column_names[1].name>> \o ColsOf(Tail(column_names))
         ELSE ColsOf(Tail(column_names))

\* and the function invocations
RECURSIVE SclrsOf(_)
SclrsOf(column_names) ==
    IF Len(column_names) = 0 THEN <<>>
    ELSE IF column_names[1].kind = "Function"
         THEN <<column_names[1]>> \o SclrsOf(Tail(column_names))
         ELSE SclrsOf(Tail(column_names))

\* the projection step of the Column arm: the whole table for "*", else select
QueryProjection(db, table_name, cols) ==
    IF "*" \in Range(cols)
    THEN [db |-> db, rd |-> Some(table_reader(table_name)), r |-> Ok(0)]
    ELSE reader_select(db, table_reader(table_name), cols)

\* the WHERE step: the filter is compiled against the schema of the table
QuerySelection(out, selection, table_schema_vec) ==
    IF out.r.st # "ok" \/ ~IsSome(selection) THEN out
    ELSE LET c == _parse_selection(Unwrap(selection), table_schema_vec)
         IN  IF c.r.st # "ok" THEN [db |-> out.db, rd |-> None, r |-> c.r]
             ELSE reader_filter(out.db, Unwrap(out.rd), c.f)

\* the scalar step
QueryScalars(out, sclrs) ==
    IF out.r.st # "ok" \/ Len(sclrs) = 0 THEN out
    ELSE perform_function(out.db, Unwrap(out.rd), sclrs)

\* n_rows_processed is table._rows()
QueryResult(out, table_name) ==
    IF out.r.st # "ok" THEN out
    ELSE [db |-> out.db, rd |-> out.rd, r |-> Ok(Len(out.db[table_name].rows))]

\* SqlExecutor::execute, Statement::Query with a projection in Column mode and
\* neither ORDER BY nor LIMIT: select first, then the WHERE filter compiled
\* against the table's schema, then the scalars
execute_query(db, table_name, column_names, selection) ==
    IF ~contains_table(db, table_name)
    THEN [db |-> db, rd |-> None, r |-> Err("Table does not exist!")]
    ELSE QueryResult(
             QueryScalars(
                 QuerySelection(QueryProjection(db, table_name, ColsOf(column_names)),
                                selection, ColumnNames(db[table_name].schema)),
                 SclrsOf(column_names)),
             table_name)

\* the rows of Statement::Insert, extracted one after the other
RECURSIVE ExtractRows(_, _, _)
ExtractRows(query_rows, i, rows) ==
    IF i > Len(query_rows) THEN [r |-> Ok(0), rows |-> rows]
    ELSE LET row == _extract_row(query_rows[i], 1, <<>>)
         IN  IF row.r.st # "ok" THEN [r |-> row.r, rows |-> <<>>]
             ELSE ExtractRows(query_rows, i + 1, Append(rows, row.row))

\* SqlExecutor::execute, Statement::Insert
execute_insert(db, table_name, query_rows) ==
    LET rows == ExtractRows(query_rows, 1, <<>>)
        out == insert_many_into_table(db, table_name, rows.rows)
    IN  IF ~contains_table(db, table_name)
        THEN [db |-> db, rd |-> None, r |-> Err("Table does not exist.")]
        ELSE IF rows.r.st # "ok" THEN [db |-> db, rd |-> None, r |-> rows.r]
        ELSE [db |-> out.db, rd |-> None, r |-> out.r]

\* SqlExecutor::execute, Statement::Delete
execute_delete(db, table_name, selection) ==
    LET filter == SelectionFilter(selection, ColumnNames(db[table_name].schema))
        out == delete_from_table_with_filter(db, table_name, filter)
    IN  IF ~contains_table(db, table_name)
        THEN [db |-> db, rd |-> None, r |-> Err("Table does not exist!")]
        ELSE [db |-> out.db, rd |-> None, r |-> out.r]

\* the assignments of Statement::Update, put into the HashMap one after the other
RECURSIVE Assignments(_, _, _)
Assignments(assignments, i, updates) ==
    IF i > Len(assignments) THEN [r |-> Ok(0), updates |-> updates]
    ELSE LET a == _parse_assignment(assignments[i])
         IN  IF a.r.st # "ok" THEN [r |-> a.r, updates |-> updates]
             ELSE Assignments(assignments, i + 1,
                      [c \in DOMAIN updates \cup {a.col} |->
                          IF c = a.col THEN a.value ELSE updates[c]])

\* SqlExecutor::execute, Statement::Update
execute_update(db, table_name, assignments, selection, order) ==
    LET filter == SelectionFilter(selection, ColumnNames(db[table_name].schema))
        updates == Assignments(assignments, 1, [c \in {} |-> <<>>])
        out == update_table_set_with_filters(db, table_name, filter, updates.updates, order)
    IN  IF ~contains_table(db, table_name)
        THEN [db |-> db, rd |-> None, r |-> Err("Table does not exist!")]
        ELSE IF updates.r.st # "ok" THEN [db |-> db, rd |-> None, r |-> updates.r]
        ELSE [db |-> out.db, rd |-> None, r |-> out.r]

----------------------------------------------------------------------------
(* The statement specification: CREATE-d through the Database, the table   *)
(* "t" takes INSERT, SELECT, DELETE and UPDATE statements; "u" is a table  *)
(* that is never created.                                                   *)

SqlTables == {"t", "u"}

Num(value) == Value("Number", value)

Str(value) == Value("SingleQuotedString", value)

SqlInserts ==
    {<< <<Num(S1), Str(SX)>> >>,
     << <<Num(S2), Str(S1)>> >>,
     << <<Num(S2), Str(S2)>>, <<Num(S1), Value("Null", <<>>)>> >>}

\* WHERE clauses: None, two that compile, and two that do not (a column that
\* is not in the schema, an operator that is not supported)
SqlSelections ==
    {None,
     Some(BinaryOp(Identifier("id"), "Eq", Num(S1))),
     Some(BinaryOp(BinaryOp(Identifier("name"), "NotEq", Str(S1)), "Or",
                   BinaryOp(Identifier("id"), "Eq", Num(S2)))),
     Some(BinaryOp(Identifier("zz"), "Eq", Num(S1))),
     Some(BinaryOp(Identifier("id"), "Gt", Num(S1)))}

SqlProjections ==
    {<<Column("name")>>,
     <<Column("id"), Column("name")>>,
     <<Column("*")>>,
     <<Column("*"), Function("ADD", <<ArgColumn("id"), ArgColumn(S1)>>)>>,
     <<Column("*"), FunctionAs("ADD", <<ArgColumn("id"), ArgColumn(S1)>>, "pk")>>}

Assignment(name, value) ==
    [target |-> [kind |-> "ColumnName", name |-> name], value |-> value]

SqlAssignments == {<<Assignment("name", Str(S2))>>, <<Assignment("id", Num(S2))>>}

InitSql ==
    /\ tables = DatabaseNew
    /\ reader = None
    /\ registry = <<>>
    /\ session = [active_database |-> <<>>]
    /\ locks = <<>>
    /\ threads = <<>>
    /\ last = Call("Database::new", "", <<>>, Ok(0))

\* one statement: arg keeps its projection list and its WHERE clause
SqlCall(n, op, column_names, selection, out) ==
    /\ tables' = out.db
    /\ reader' = out.rd
    /\ UNCHANGED <<registry, session, locks, threads>>
    /\ last' = Call(op, n, [column_names |-> column_names, selection |-> selection], out.r)

ExecuteQuery(n, column_names, selection) ==
    /\ Running
    /\ n \in DOMAIN tables
          => Len(tables[n].schema) + Len(SclrsOf(column_names)) <= MaxCols
    /\ SqlCall(n, "SELECT", column_names, selection,
               execute_query(tables, n, column_names, selection))

ExecuteInsert(n, query_rows) ==
    LET out == execute_insert(tables, n, query_rows)
    IN  /\ Running
        /\ RowsWithin(out.db)
        /\ SqlCall(n, "INSERT", <<>>, None, out)

ExecuteDelete(n, selection) ==
    /\ Running
    /\ SqlCall(n, "DELETE", <<>>, selection, execute_delete(tables, n, selection))

ExecuteUpdate(n, assignments, selection, order) ==
    /\ Running
    /\ SqlCall(n, "UPDATE", <<>>, selection,
               execute_update(tables, n, assignments, selection, order))

\* (table, WHERE clause) pairs: every clause on "t", the bare statement on "u"
SqlTargets == {<<"t", w>> : w \in SqlSelections} \cup {<<"u", None>>}

NextSql ==
    \/ \E d \in {DefP, DefU} : DbCreateTable("t", d)
    \/ \E n \in SqlTables, q \in SqlInserts : ExecuteInsert(n, q)
    \/ \E x \in SqlTargets, c \in SqlProjections : ExecuteQuery(x[1], c, x[2])
    \/ \E x \in SqlTargets : ExecuteDelete(x[1], x[2])
    \/ \E x \in SqlTargets, a \in SqlAssignments :
          \E order \in Orders({a[i].target.name : i \in 1..Len(a)}) :
             ExecuteUpdate(x[1], a, x[2], order)

SpecSql == InitSql /\ [][NextSql]_vars

----------------------------------------------------------------------------
(* Properties of the statement specification                               *)

\* the WHERE clause names a column that names lacks, or uses an operator other
\* than OR, AND, = and <>
RECURSIVE CannotCompile(_, _)
CannotCompile(selection, names) ==
    \/ selection.kind # "BinaryOp"
    \/ selection.op \notin {"Or", "And", "Eq", "NotEq"}
    \/ /\ selection.op \in {"Or", "And"}
       /\ \/ CannotCompile(selection.left, names)
          \/ CannotCompile(selection.right, names)
    \/ /\ selection.op \in {"Eq", "NotEq"}
       /\ \/ selection.left.kind # "Identifier"
          \/ selection.left.value \notin Range(names)

\* C6: a DELETE or UPDATE whose WHERE clause cannot be compiled (it names a
\* column that does not exist, or uses an operator other than OR, AND, = and <>)
\* fails with an error and changes no row; it never behaves like the statement
\* without WHERE.
C6_UncompilableWhereChangesNothing ==
    [][(/\ last'.op \in {"DELETE", "UPDATE"}
        /\ last'.table \in DOMAIN tables
        /\ IsSome(last'.arg.selection)
        /\ CannotCompile(Unwrap(last'.arg.selection),
                         ColumnNames(tables[last'.table].schema)))
       => (last'.r.st = "err" /\ tables' = tables)]_vars

\* the row satisfies the WHERE clause, read at the columns of the schema names
RECURSIVE WhereHolds(_, _, _)
WhereHolds(selection, names, row) ==
    IF selection.op = "Or"
    THEN WhereHolds(selection.left, names, row) \/ WhereHolds(selection.right, names, row)
    ELSE IF selection.op = "And"
    THEN WhereHolds(selection.left, names, row) /\ WhereHolds(selection.right, names, row)
    ELSE LET i == CHOOSE i \in 1..Len(names) :
                     /\ names[i] = selection.left.value
                     /\ \A j \in 1..(i - 1) : names[j] # selection.left.value
             cell == row[i]
         IN  /\ IsSome(cell)
             /\ IF selection.op = "Eq" THEN Unwrap(cell) = selection.right.value
                ELSE Unwrap(cell) # selection.right.value

\* the projection of a row of the table onto the selected columns
Projection(row, cols, names) ==
    [k \in 1..Len(cols) |->
        row[CHOOSE i \in 1..Len(names) :
               names[i] = cols[k] /\ \A j \in 1..(i - 1) : names[j] # cols[k]]]

\* C7: a Column-mode SELECT c1..cn FROM t WHERE <clause> returns exactly the
\* projections onto c1..cn of the rows of t whose cells, read at the clause's
\* columns in t's schema, satisfy the clause, in table order; also when a
\* clause column is not among c1..cn or sits at another position there.
C7_SelectWhereReadsTableColumns ==
    [][(/\ last'.op = "SELECT"
        /\ last'.r.st = "ok"
        /\ IsSome(last'.arg.selection)
        /\ SclrsOf(last'.arg.column_names) = <<>>
        /\ "*" \notin Range(ColsOf(last'.arg.column_names)))
       => LET t == tables[last'.table]
              names == ColumnNames(t.schema)
              cols == ColsOf(last'.arg.column_names)
              kept == SelectSeq(t.rows,
                          LAMBDA row : WhereHolds(Unwrap(last'.arg.selection), names, row))
          IN  /\ IsSome(reader')
              /\ scan(tables', Unwrap(reader'))
                    = [j \in 1..Len(kept) |-> Projection(kept[j], cols, names)]]_vars

----------------------------------------------------------------------------
(* Further properties of the Table-level specification                     *)

KeyErrors == {"err: invalid key; no match", "err: invalid key arguments", "err: need a key"}

\* C11: in every reachable state, Table.delete with a primary key that matches
\* no row of the table returns the 'no match' error (a key of the wrong arity
\* on an indexed table is rejected likewise) and leaves rows and index unchanged.
C11_DeleteOfAbsentKeyChangesNothing ==
    [][(last'.op = "delete" /\ JoinBar(last'.arg) \notin RowKeys(tables[last'.table]))
       => /\ last'.r.st = "err"
          /\ last'.r.err \in KeyErrors
          /\ (Len(last'.arg) = Len(tables[last'.table].primary_key_columns)
                 => last'.r.err = "err: invalid key; no match")
          /\ tables' = tables]_vars

\* C12: Table.update (and through it Database.update_table_set) called with a
\* primary key that matches no row returns a key error to the caller and leaves
\* the table unchanged; the operation does not abort.
C12_UpdateOfAbsentKeyReturnsError ==
    [][(last'.op = "update" /\ JoinBar(last'.arg) \notin RowKeys(tables[last'.table]))
       => /\ last'.r.st = "err"
          /\ last'.r.err \in KeyErrors
          /\ tables' = tables]_vars

\* C13: delete_all on an indexed table returns the number of rows held before
\* the call, leaves the rows vector empty and leaves the index with no entry.
C13_DeleteAllClearsRowsAndIndex ==
    [][(last'.op = "delete_all" /\ tables[last'.table].is_indexed)
       => /\ last'.r.st = "ok"
          /\ last'.r.n = Len(tables[last'.table].rows)
          /\ tables'[last'.table].rows = <<>>
          /\ DOMAIN tables'[last'.table].index = {}]_vars

\* the number of rows of a batch that go in: all of them, or those before the
\* first row that Table::insert refuses
Accepted(t, values) ==
    LET bad == {k \in 1..Len(values) : insert(t, values[k]).r.st # "ok"}
    IN  IF bad = {} THEN Len(values)
        ELSE (CHOOSE k \in bad : \A j \in bad : k <= j) - 1

\* rows and index after insert_many: the first n rows of the batch appended in
\* order, each key at the position of the last appended row that carries it
BatchAppended(t, t2, values, n) ==
    /\ t2.rows = t.rows \o [j \in 1..n |-> _validate_data(t, values[j]).row]
    /\ t.is_indexed =>
          \A j \in 1..n :
             LET key == DataPkString(t, values[j])
                 same == {i \in 1..n : DataPkString(t, values[i]) = key}
             IN  /\ key \in DOMAIN t2.index
                 /\ t2.index[key] = Len(t.rows) + (CHOOSE i \in same : \A h \in same : h <= i) - 1

----------------------------------------------------------------------------
(* Shape of the stored data                                                 *)

StoredTables == {n \in DOMAIN tables : tables[n] # NoTable}

Inadmissible(item, col_info) ==
    \/ Len(item) = 0 /\ ~col_info.nullable
    \/ Len(item) > 0 /\ col_info.datatype = "Number" /\ ~ParsesAsU64(item)
    \/ Len(item) > 0 /\ col_info.datatype = "Text" /\ IsSome(col_info.max_limit)
          /\ Len(item) > Unwrap(col_info.max_limit)

\* every stored cell under a column is a value the column admits
CellsAdmissible(t) ==
    \A i \in 1..Len(t.rows) :
       \A j \in 1..Min(Len(t.rows[i]), Len(t.schema)) :
          LET cell == t.rows[i][j]
          IN  ~Inadmissible(IF IsSome(cell) THEN Unwrap(cell) ELSE Empty, t.schema[j].info)

\* the columns of an update map that the schema has, with an inadmissible value
BadUpdates(t, u) ==
    {c \in DOMAIN u :
        /\ IsSome(Position(ColumnNames(t.schema), c))
        /\ Inadmissible(u[c], t.schema[Unwrap(Position(ColumnNames(t.schema), c)) + 1].info)}

\* C16: every stored num cell parses as u64 and every stored txt cell is no
\* longer than the column's limit; an insert carrying an empty value for a
\* non-nullable column, a non-numeric value for a num column or an over-long
\* text is rejected without change, and an update never writes such a field
\* (it returns no success, and the field keeps its value).
C16_StoredCellsAreValid ==
    /\ \A n \in StoredTables : CellsAdmissible(tables[n])
    /\ \A data \in DataRows :
          LET t == tables["t"]
          IN  (/\ Len(data) = Len(t.schema)
               /\ \E j \in 1..Len(data) : Inadmissible(data[j], t.schema[j].info))
              => /\ insert(t, data).r.st = "err"
                 /\ insert(t, data).t = t
    /\ \A pk \in PkArgs, u \in UpdateMaps : \A order \in Orders(DOMAIN u) :
          LET t == tables["t"]
              out == update(t, pk, u, order)
          IN  BadUpdates(t, u) # {}
              => /\ out.r.st # "ok"
                 /\ CellsAdmissible(out.t)

\* an update carrying an over-long text was refused on a table that holds a row
C16_Witness ==
    /\ last.op = "insert"
    /\ last.arg = <<S1, Long>>
    /\ last.r.st = "err"
    /\ Len(tables["t"].rows) >= 1
    /\ \E pk \in PkArgs :
          /\ IsSome(_find_row(tables["t"], pk))
          /\ update(tables["t"], pk, [c \in {"name"} |-> Long], <<"name">>).r.st = "err"

\* the column definitions with a keyword for a name
KeywordColumns == {<< <<k, "num">> >> : k \in Keywords} \cup {<< <<"id", "num", "pk">>, <<k, "txt">> >> : k \in Keywords}

C18_NoDuplicateColumnNames ==
    /\ TableNew("t", <<>>).r.st = "err"
    /\ TableNew("t", DefDup).r.st = "err"
    /\ \A n \in StoredTables :
          \A i, j \in 1..Len(tables[n].schema) :
             tables[n].schema[i].name = tables[n].schema[j].name => i = j

----------------------------------------------------------------------------
(* DatabaseRegistry: an IndexMap from database name to Arc<RwLock<Database>>. *)
(* The map is the sequence of its entries in insertion order; a value is the  *)
(* allocation it points to (arc) together with the Database held there (db).  *)

RegistryNew == <<>>

Keys(r) == [i \in 1..Len(r) |-> r[i].key]

\* IndexMap::contains_key, as DatabaseRegistry::exists calls it
exists(r, db_name) == \E i \in 1..Len(r) : r[i].key = db_name

\* IndexMap::get
registry_get(r, db_name) ==
    IF exists(r, db_name)
    THEN Some(r[CHOOSE i \in 1..Len(r) : r[i].key = db_name].value)
    ELSE None

\* Arc::new: an allocation no live handle points to, the session's handle of a
\* dropped database included
ArcNew(r) ==
    CHOOSE a \in 1..(Len(r) + 2) :
       /\ \A i \in 1..Len(r) : r[i].value.arc # a
       /\ session.active_database # Some(a)

\* IndexMap::insert: a new key goes to the end, a present key keeps its place
registry_insert(r, db_name, value) ==
    IF exists(r, db_name)
    THEN [i \in 1..Len(r) |-> IF r[i].key = db_name THEN [key |-> db_name, value |-> value]
                                                     ELSE r[i]]
    ELSE Append(r, [key |-> db_name, value |-> value])

\* IndexMap::shift_remove: the entries after the removed one move up by one
shift_remove(r, db_name) ==
    LET p == CHOOSE i \in 1..Len(r) : r[i].key = db_name
    IN  [i \in 1..(Len(r) - 1) |-> IF i < p THEN r[i] ELSE r[i + 1]]

\* IndexMap::swap_remove: the last entry takes the place of the removed one
swap_remove(r, db_name) ==
    LET p == CHOOSE i \in 1..Len(r) : r[i].key = db_name
    IN  [i \in 1..(Len(r) - 1) |-> IF i = p THEN r[Len(r)] ELSE r[i]]

\* DatabaseRegistry::get_database: expect panics on a name that is not there;
\* the result carries the handle's allocation
get_database(r, db_name) ==
    IF exists(r, db_name) THEN Ok(Unwrap(registry_get(r, db_name)).arc)
    ELSE Panic("Database does not exist.")

\* create_database putting its fresh database in whenever the flag is set
create_database_replace(r, db_name, if_not_exists) ==
    LET db == [arc |-> ArcNew(r), db |-> DatabaseNew]
    IN  IF exists(r, db_name) /\ ~if_not_exists
        THEN [registry |-> r, r |-> Err("Integrity violation; database already exists")]
        ELSE [registry |-> registry_insert(r, db_name, db), r |-> Ok(db.arc)]

\* DatabaseRegistry::create_database
create_database(r, db_name, if_not_exists) ==
    LET db == [arc |-> ArcNew(r), db |-> DatabaseNew]
    IN  IF exists(r, db_name)
        THEN IF if_not_exists
             THEN [registry |-> r, r |-> get_database(r, db_name)]
             ELSE [registry |-> r, r |-> Err("Integrity violation; database already exists")]
        ELSE [registry |-> registry_insert(r, db_name, db), r |-> Ok(db.arc)]

\* DatabaseRegistry::get_database_names
get_database_names(r) == Keys(r)

\* Option<Arc<..>>::None as the outcome of a call
Absent == [st |-> "none", err |-> "", n |-> 0]

\* drop_database removing with swap_remove
drop_database_swap(r, db_name) ==
    IF exists(r, db_name)
    THEN [registry |-> swap_remove(r, db_name), r |-> Ok(Unwrap(registry_get(r, db_name)).arc)]
    ELSE [registry |-> r, r |-> Absent]

\* DatabaseRegistry::drop_database
drop_database(r, db_name) ==
    IF exists(r, db_name)
    THEN [registry |-> shift_remove(r, db_name), r |-> Ok(Unwrap(registry_get(r, db_name)).arc)]
    ELSE [registry |-> r, r |-> Absent]

----------------------------------------------------------------------------
(* Specification of the registry: databases are created and dropped by name, *)
(* and tables are created in the databases through their handles.            *)

DbNames == {"a", "b", "c"}

\* Session::client
SessionClient == [active_database |-> None]

\* Session::use_database: the ? passes on an Err of get_database, its panic
\* unwinds through the caller
use_database(s, r, db_name) ==
    LET db == get_database(r, db_name)
    IN  IF db.st # "ok" THEN [session |-> s, r |-> db]
        ELSE [session |-> [s EXCEPT !.active_database = Some(db.n)], r |-> Ok(0)]

InitRegistry ==
    /\ tables = DatabaseNew
    /\ reader = None
    /\ registry = RegistryNew
    /\ session = SessionClient
    /\ locks = <<>>
    /\ threads = <<>>
    /\ last = Call("DatabaseRegistry::new", "", <<>>, Ok(0))

RegistryCall(op, db_name, arg, out) ==
    /\ last.r.st # "panic"
    /\ registry' = out.registry
    /\ last' = Call(op, db_name, arg, out.r)
    /\ UNCHANGED <<tables, reader, session, locks, threads>>

RegCreateDatabase(db_name, if_not_exists) ==
    RegistryCall("create_database", db_name, <<if_not_exists>>,
                 create_database(registry, db_name, if_not_exists))

RegDropDatabase(db_name) ==
    RegistryCall("drop_database", db_name, <<>>, drop_database(registry, db_name))

RegGetDatabaseNames ==
    RegistryCall("get_database_names", "", get_database_names(registry),
                 [registry |-> registry, r |-> Ok(Len(registry))])

\* Database::create_table through the handle the registry holds for db_name
RegCreateTable(db_name, name, column_definitions) ==
    /\ exists(registry, db_name)
    /\ LET value == Unwrap(registry_get(registry, db_name))
           out == create_table(value.db, name, column_definitions)
       IN  RegistryCall("create_table", db_name, <<name>>,
                        [registry |-> registry_insert(registry, db_name,
                                                      [value EXCEPT !.db = out.db]),
                         r |-> out.r])

\* the statement USE db_name
SessionUseDatabase(db_name) ==
    LET out == use_database(session, registry, db_name)
    IN  /\ last.r.st # "panic"
        /\ session' = out.session
        /\ last' = Call("use_database", db_name, <<>>, out.r)
        /\ UNCHANGED <<tables, reader, registry, locks, threads>>

NextRegistry ==
    \/ \E db_name \in DbNames : SessionUseDatabase(db_name)
    \/ \E db_name \in DbNames, f \in BOOLEAN : RegCreateDatabase(db_name, f)
    \/ \E db_name \in DbNames : RegDropDatabase(db_name)
    \/ RegGetDatabaseNames
    \/ \E db_name \in DbNames : RegCreateTable(db_name, "t", DefP)

SpecRegistry == InitRegistry /\ [][NextRegistry]_vars

----------------------------------------------------------------------------
(* Properties of the registry                                               *)

LiveArcs(r) == {r[i].value.arc : i \in 1..Len(r)}

RECURSIVE Without(_, _)
Without(r, db_name) ==
    IF Len(r) = 0 THEN <<>>
    ELSE IF r[1].key = db_name THEN Without(Tail(r), db_name)
    ELSE <<r[1]>> \o Without(Tail(r), db_name)

\* C20: get_database_names lists each existing database exactly once, in
\* creation order: create_database of a new name puts it last and of a present
\* name changes no name; drop_database(name) removes exactly that entry and
\* returns its handle, the remaining entries keeping their relative order, or
\* returns absence and changes nothing.
C20_NamesInCreationOrder ==
    /\ [](\A i, j \in 1..Len(registry) :
             get_database_names(registry)[i] = get_database_names(registry)[j] => i = j)
    /\ [][/\ last'.op = "create_database"
             => get_database_names(registry') =
                   IF exists(registry, last'.table) THEN get_database_names(registry)
                   ELSE Append(get_database_names(registry), last'.table)
          /\ last'.op = "drop_database"
             => IF exists(registry, last'.table)
                THEN /\ registry' = Without(registry, last'.table)
                     /\ Len(registry') = Len(registry) - 1
                     /\ last'.r = Ok(Unwrap(registry_get(registry, last'.table)).arc)
                ELSE /\ registry' = registry
                     /\ last'.r = Absent
          /\ last'.op = "get_database_names"
             => /\ last'.arg = [i \in 1..Len(registry) |-> registry[i].key]
                /\ registry' = registry]_vars

\* the first of three databases was dropped: the other two are listed in the
\* order of their creation
C20_Witness ==
    /\ last.op = "drop_database"
    /\ last.table = "a"
    /\ last.r.st = "ok"
    /\ get_database_names(registry) = <<"c", "b">>

----------------------------------------------------------------------------
(* Properties of the session                                                *)

\* C21: Session.use_database(name) for a name that is not in the registry
\* returns a catalog error to the caller and leaves the session's active
\* database unchanged; for a name in the registry it sets the active database
\* to that registry entry.
C21_UseDatabase ==
    [][last'.op = "use_database"
       => IF exists(registry, last'.table)
          THEN /\ last'.r.st = "ok"
               /\ session'.active_database = Some(Unwrap(registry_get(registry, last'.table)).arc)
          ELSE /\ last'.r.st = "err"
               /\ session' = session]_vars

----------------------------------------------------------------------------
(* Relations between the Table calls                                        *)

\* pk(r): the values of the primary-key columns of the row data
DataPk(t, data) ==
    [i \in 1..Len(t.primary_key_columns) |-> data[t.primary_key_columns[i] + 1]]

\* C22: for any reachable table state and any row r that insert accepts,
\* insert(r) followed by delete(pk(r)) succeeds and leaves _rows() equal to the
\* row count before the insert.
C22_InsertThenDeleteKeepsCount ==
    \A data \in DataRows :
       LET t == tables["t"]
           ins == insert(t, data)
           del == delete(ins.t, DataPk(t, data))
       IN  ins.r.st = "ok"
           => /\ del.r.st = "ok"
              /\ Len(del.t.rows) = Len(t.rows)

\* an accepted insert went into a table that held a row, and the delete of its
\* key brings the count back
C22_Witness ==
    /\ last.op = "insert"
    /\ last.r.st = "ok"
    /\ Len(tables["t"].rows) = 2
    /\ delete(tables["t"], DataPk(tables["t"], last.arg)).r.st = "ok"
    /\ Len(delete(tables["t"], DataPk(tables["t"], last.arg)).t.rows) = 1

----------------------------------------------------------------------------
(* Properties of the reader's ordering and slicing                          *)

Perms(n) == {p \in [1..n -> 1..n] : \A i, j \in 1..n : p[i] = p[j] => i = j}

\* the order the key list asks for: the first key on which the rows differ
\* decides, by the text of the cells, reversed where the key is descending
KeyOrder(a, b, keys) ==
    LET differ == {k \in 1..Len(keys) : CellCmp(a, b, keys[k][1]) # 0}
        k == CHOOSE x \in differ : \A y \in differ : x <= y
    IN  IF differ = {} THEN 0
        ELSE IF keys[k][2] THEN CellCmp(a, b, keys[k][1]) ELSE 0 - CellCmp(a, b, keys[k][1])

\* sorted is rows rearranged by p, in key order, ties in their order in rows
StablySorted(rows, sorted, keys) ==
    /\ Len(sorted) = Len(rows)
    /\ \E p \in Perms(Len(rows)) :
          /\ \A i \in 1..Len(rows) : sorted[i] = rows[p[i]]
          /\ \A i, j \in 1..Len(rows) :
                i < j => \/ KeyOrder(sorted[i], sorted[j], keys) < 0
                         \/ KeyOrder(sorted[i], sorted[j], keys) = 0 /\ p[i] < p[j]

\* C23: TableReader.order_by(keys) returns a permutation of the reader's rows
\* sorted by the first key, each later key breaking the ties the earlier ones
\* leave, ascending or descending per key by the text of the cells; rows equal
\* on every key keep their relative order, and order_by with the same keys
\* applied twice gives the rows of applying it once.
C23_OrderBy ==
    IsSome(reader) =>
       \A keys \in ReaderSortIndex :
          LET once == reader_order_by(tables, Unwrap(reader), keys)
              twice == reader_order_by(once.db, Unwrap(once.rd), keys)
          IN  /\ StablySorted(scan(tables, Unwrap(reader)), scan(once.db, Unwrap(once.rd)), keys)
              /\ scan(twice.db, Unwrap(twice.rd)) = scan(once.db, Unwrap(once.rd))

\* order_by moved a row up that ties with the other on the first key
C23_Witness ==
    /\ last.op = "order_by"
    /\ IsSome(reader)
    /\ tables["t"].rows = << <<Some(S2), Some(S1)>>, <<Some(S1), Some(S1)>> >>
    /\ scan(tables, Unwrap(reader)) = << <<Some(S1), Some(S1)>>, <<Some(S2), Some(S1)>> >>

----------------------------------------------------------------------------
(* Bulk writes under a predicate                                            *)

\* the positions of the rows that satisfy the predicate f
Hits(rows, f) == {i \in 1..Len(rows) : EvalFilter(f, rows[i])}

\* the row with the cells of the assigned columns replaced
Assigned(schema, row, updates) ==
    [j \in 1..Len(row) |->
        IF j <= Len(schema) /\ schema[j].name \in DOMAIN updates
           /\ Position(ColumnNames(schema), schema[j].name) = Some(j - 1)
        THEN Some(updates[schema[j].name])
        ELSE row[j]]

\* what the claim asks of one call: count returned, hit rows written, the
\* others untouched
UpdatedWhere(t, t2, f, updates, r) ==
    /\ r = Ok(Cardinality(Hits(t.rows, f)))
    /\ Len(t2.rows) = Len(t.rows)
    /\ \A i \in 1..Len(t.rows) :
          t2.rows[i] = IF i \in Hits(t.rows, f) THEN Assigned(t.schema, t.rows[i], updates)
                       ELSE t.rows[i]

\* C24: Database.update_table_set_with_filters with a predicate, on an indexed
\* or an unindexed table, writes the assigned values into every row that
\* satisfied the predicate before the call, leaves every other row unchanged,
\* and returns the number of rows that satisfied the predicate.  (Checked for
\* the statement UPDATE t SET column = value WHERE predicate, whose values are
\* valid for their columns.)
C24_UpdateWhereWritesEveryMatch ==
    [][(/\ last'.op = "UPDATE"
        /\ last'.table \in DOMAIN tables
        /\ IsSome(SelectionFilter(last'.arg.selection,
                                  ColumnNames(tables[last'.table].schema))))
       => \A a \in SqlAssignments :
             \A order \in Orders({a[i].target.name : i \in 1..Len(a)}) :
                LET n == last'.table
                    out == execute_update(tables, n, a, last'.arg.selection, order)
                    f == Unwrap(SelectionFilter(last'.arg.selection,
                                                ColumnNames(tables[n].schema)))
                IN  (tables' = out.db /\ last'.r = out.r)
                    => UpdatedWhere(tables[n], tables'[n], f,
                                    Assignments(a, 1, [c \in {} |-> <<>>]).updates, last'.r)]_vars

\* the rows at the positions outside hits, in their order
RECURSIVE Surviving(_, _, _)
Surviving(rows, hits, i) ==
    IF i > Len(rows) THEN <<>>
    ELSE IF i \in hits THEN Surviving(rows, hits, i + 1)
    ELSE <<rows[i]>> \o Surviving(rows, hits, i + 1)

\* C25: Table.delete_with_filter(predicate), on an indexed or an unindexed
\* table, removes exactly the rows that satisfied the predicate before the
\* call, keeps all other rows in their original relative order, returns the
\* number of rows removed, and in an indexed table leaves every surviving key
\* mapped to its row's new position.
C25_DeleteWithFilterRemovesMatches ==
    [][last'.op = "delete_with_filter"
       => LET t == tables[last'.table]
              t2 == tables'[last'.table]
              hits == Hits(t.rows, last'.arg)
          IN  /\ last'.r = Ok(Cardinality(hits))
              /\ t2.rows = Surviving(t.rows, hits, 1)
              /\ t.is_indexed
                 => \A i \in 1..Len(t2.rows) :
                       index_get(t2.index, PkString(t2, t2.rows[i])) = Some(i - 1)]_vars

----------------------------------------------------------------------------
(* Locks.  The Database, each Table, its schema and its rows sit in an      *)
(* RwLock of their own.  A thread runs a statement as a list of steps: lock *)
(* acquisitions, guard drops, and the computations between them.            *)

LockNames == {"database", "table", "schema", "rows"}

Threads == {1, 2}

\* a bound on the number of statements a thread runs
MaxStmts == 1

\* RwLock::new
RwLockNew == [writer |-> 0, readers |-> {}, poisoned |-> FALSE]

\* RwLock::read is granted while no writer holds the lock
CanRead(lk) == lk.writer = 0

\* a write lock that is granted whatever guards are out
CanWriteShared(lk) == TRUE

\* RwLock::write is granted while no guard of the lock is out
CanWrite(lk) == lk.writer = 0 /\ lk.readers = {}

Holds(th, l) == locks[l].writer = th \/ th \in locks[l].readers

\* the steps of a statement
Acq(l, m) == [op |-> "acquire", lock |-> l, mode |-> m, what |-> "", arg |-> <<>>, keep |-> 0]

Rel(l, m) == [op |-> "release", lock |-> l, mode |-> m, what |-> "", arg |-> <<>>, keep |-> 0]

\* a computation; the steps it decides on go after the next `keep` steps
Do(what, arg, keep) ==
    [op |-> "do", lock |-> "", mode |-> "", what |-> what, arg |-> arg, keep |-> keep]

\* the guards a returning or unwinding function drops, last acquired first
Unwind(held) == [i \in 1..Len(held) |-> Rel(held[Len(held) + 1 - i][1], held[Len(held) + 1 - i][2])]

\* what a step works on
NoArg == [pk |-> <<>>, data |-> <<>>, filter |-> None, then |-> "", index |-> 0]

\* the updates map of the UPDATE statements run here: SET name = '2'
LockUpdates == "name" :> S2

\* a statement a thread runs
Stmt(kind, filter, data) == [kind |-> kind, filter |-> filter, data |-> data]

\* the executor's block that builds table_schema_vec, with its guards kept
\* to the end of the match arm
ReadSchemaVecHeld == <<Acq("table", "r"), Acq("schema", "r")>>

\* the executor's block that builds table_schema_vec: both guards are
\* dropped at the end of the block
ReadSchemaVec ==
    <<Acq("table", "r"), Acq("schema", "r"), Rel("schema", "r"), Rel("table", "r")>>

\* Table::_find_row: the unindexed search reads under rows.read()
FindSteps(t, pk, then) ==
    IF t.is_indexed
    THEN <<Do("find", [NoArg EXCEPT !.pk = pk, !.then = then], 0)>>
    ELSE <<Acq("rows", "r"),
           Do("find", [NoArg EXCEPT !.pk = pk, !.then = then], 1),
           Rel("rows", "r")>>

\* Table::delete, after the row is found
RemoveSteps(pk, index) ==
    <<Acq("rows", "w"),
      Do("rows_remove", [NoArg EXCEPT !.index = index], 0),
      Do("index_remove", [NoArg EXCEPT !.pk = pk, !.index = index], 0),
      Rel("rows", "w")>>

\* Table::update, after the row is found
WriteSteps(index) ==
    <<Acq("rows", "w"), Acq("schema", "r"),
      Do("write_cells", [NoArg EXCEPT !.index = index], 0),
      Rel("schema", "r"), Rel("rows", "w")>>

\* Table::insert, after the data is validated
PushSteps(row) ==
    <<Acq("rows", "w"),
      Do("index_insert", [NoArg EXCEPT !.data = row], 0),
      Do("rows_push", [NoArg EXCEPT !.data = row], 0),
      Rel("rows", "w")>>

\* Table::delete and Table::update start by validating the key
KeySteps(pk, then) == <<Do("validate_pk", [NoArg EXCEPT !.pk = pk, !.then = then], 0)>>

\* one turn of the loop over the collected keys
PerKeySteps(pk, then) ==
    IF then = "update_table_set"
    THEN <<Acq("table", "w"), Acq("schema", "r"), Rel("schema", "r")>>
         \o KeySteps(pk, "update") \o <<Rel("table", "w"), Do("count", NoArg, 0)>>
    ELSE KeySteps(pk, then) \o <<Do("count", NoArg, 0)>>

RECURSIVE LoopSteps(_, _, _)
LoopSteps(pks, then, i) ==
    IF i > Len(pks) THEN <<>>
    ELSE PerKeySteps(pks[i], then) \o LoopSteps(pks, then, i + 1)

\* the keys are collected under rows.read()
CollectSteps(filter, then, keep) ==
    <<Acq("rows", "r"),
      Do("collect_pks", [NoArg EXCEPT !.filter = filter, !.then = then], keep),
      Rel("rows", "r")>>

\* Database::delete_from_table_with_filter
DeleteFromTableSteps(filter) ==
    <<Acq("table", "w")>>
    \o (IF IsSome(filter) THEN CollectSteps(filter, "delete", 1)
        ELSE <<Acq("rows", "w"), Do("clear", NoArg, 0), Rel("rows", "w")>>)
    \o <<Rel("table", "w")>>

\* Database::update_table_set_with_filters
UpdateTableSteps(filter) ==
    IF IsSome(filter)
    THEN <<Acq("table", "w")>> \o CollectSteps(filter, "update_table_set", 2)
         \o <<Rel("table", "w")>>
    ELSE <<Acq("table", "w")>> \o CollectSteps(None, "update", 1) \o <<Rel("table", "w")>>

\* SqlExecutor::execute, Statement::Delete
DeleteArm(filter) ==
    <<Acq("database", "w")>> \o ReadSchemaVec \o DeleteFromTableSteps(filter)
    \o <<Rel("database", "w")>>

\* SqlExecutor::execute, Statement::Update
UpdateArm(filter) ==
    <<Acq("database", "w")>> \o ReadSchemaVec \o UpdateTableSteps(filter)
    \o <<Rel("database", "w")>>

\* table.write().unwrap().insert(data) on a shared handle
HandleInsert(data) ==
    <<Acq("table", "w"), Acq("schema", "r"),
      Do("validate_data", [NoArg EXCEPT !.data = data], 1),
      Rel("schema", "r"), Rel("table", "w")>>

\* table.write().unwrap().delete(pk) on a shared handle
HandleDelete(pk) == <<Acq("table", "w")>> \o KeySteps(pk, "delete") \o <<Rel("table", "w")>>

\* table.read().unwrap() on a shared handle, to look at rows and index
HandleRead == <<Acq("table", "r"), Do("observe", NoArg, 0), Rel("table", "r")>>

Program(stmt) ==
    CASE stmt.kind = "DELETE" -> DeleteArm(stmt.filter)
      [] stmt.kind = "UPDATE" -> UpdateArm(stmt.filter)
      [] stmt.kind = "insert" -> HandleInsert(stmt.data)
      [] stmt.kind = "delete" -> HandleDelete(stmt.data)
      [] OTHER -> HandleRead

\* a step's outcome: the table afterwards, how the step ends ("go", "err" or
\* "panic"), the steps it puts in front of the rest, and what it adds to the count
Outcome(t, how, new, n) == [t |-> t, how |-> how, new |-> new, n |-> n]

\* the steps inside Table::insert (table.rs 363-380)
InsertOutcome(t, s) ==
    LET v == _validate_data(t, s.arg.data)
        k == _create_index_key_from_row(t, s.arg.data)
    IN  CASE s.what = "validate_data" ->
                IF v.r.st # "ok" THEN Outcome(t, "err", <<>>, 0)
                ELSE Outcome(t, "go", PushSteps(v.row), 0)
          [] s.what = "index_insert" ->
                IF ~t.is_indexed THEN Outcome(t, "go", <<>>, 0)
                ELSE IF k.r.st # "ok" THEN Outcome(t, "panic", <<>>, 0)
                ELSE Outcome([t EXCEPT !.index = index_insert(@, k.key, Len(t.rows))],
                             "go", <<>>, 0)
          [] OTHER -> Outcome([t EXCEPT !.rows = Append(@, s.arg.data)], "go", <<>>, 0)

\* the steps inside Table::delete and Table::update up to the row's position
\* (table.rs 403-413, 492-505)
FindOutcome(t, s) ==
    LET vp == _validate_pk(t, s.arg.pk)
        found == _find_row(t, s.arg.pk)
    IN  IF s.what = "validate_pk"
        THEN IF vp.st # "ok" THEN Outcome(t, "err", <<>>, 0)
             ELSE Outcome(t, "go", FindSteps(t, s.arg.pk, s.arg.then), 0)
        ELSE IF IsSome(found)
             THEN Outcome(t, "go",
                          IF s.arg.then = "delete" THEN RemoveSteps(s.arg.pk, Unwrap(found))
                          ELSE WriteSteps(Unwrap(found)), 0)
             ELSE Outcome(t, IF s.arg.then = "delete" THEN "err" ELSE "panic", <<>>, 0)

\* the steps of Table::delete and Table::update under rows.write()
\* (table.rs 415-436, 506-514)
WriteOutcome(t, s) ==
    LET index == s.arg.index
        out == UpdateColumns(t, index, LockUpdates, <<"name">>, 1)
    IN  CASE s.what = "rows_remove" ->
                IF index >= Len(t.rows) THEN Outcome(t, "panic", <<>>, 0)
                ELSE Outcome([t EXCEPT !.rows = RemoveAt(@, index)], "go", <<>>, 0)
          [] s.what = "index_remove" ->
                IF ~t.is_indexed THEN Outcome(t, "go", <<>>, 0)
                ELSE Outcome([t EXCEPT !.index =
                                  shift_index_back(index_remove(@, JoinBar(s.arg.pk)), index)],
                             "go", <<>>, 0)
          [] OTHER ->
                IF index >= Len(t.rows) THEN Outcome(t, "panic", <<>>, 0)
                ELSE Outcome(out.t, IF out.r.st = "ok" THEN "go" ELSE out.r.st, <<>>, 0)

\* the steps of the bulk calls (table.rs 439-490, 520-556)
BulkOutcome(t, s) ==
    LET pks == IF IsSome(s.arg.filter) THEN filter_rows(t, Unwrap(s.arg.filter))
               ELSE PksOf(t, t.rows)
    IN  CASE s.what = "collect_pks" -> Outcome(t, "go", LoopSteps(pks, s.arg.then, 1), 0)
          [] s.what = "clear" -> Outcome([t EXCEPT !.rows = <<>>], "go", <<>>, Len(t.rows))
          [] s.what = "count" -> Outcome(t, "go", <<>>, 1)
          [] OTHER -> Outcome(t, "go", <<>>, 0)

\* the computations of the calls made through shared handles
HandleWhats == {"get_foreign_key_constraint", "pk_exists", "indices", "project",
                "push_column", "push_scalar"}

\* the reader of the table, over the table's own schema and rows
SharedReader(t) == TableReader(t.name, TRUE, TRUE, <<>>, <<>>)

\* the foreign-key check of Database::update_table_set for the column of
\* LockUpdates (database.rs 218-232): the referenced table is looked up in the
\* database, which holds the one table t, and its read lock is asked for
ForeignKeySteps(t, s) ==
    LET c == get_foreign_key_constraint(t.schema, "name")
    IN  IF s.what = "get_foreign_key_constraint"
        THEN IF ~IsSome(c) THEN Outcome(t, "go", <<>>, 0)
             ELSE IF Unwrap(c).table_name # t.name THEN Outcome(t, "err", <<>>, 0)
             ELSE Outcome(t, "go",
                          <<Acq("table", "r"), Do("pk_exists", NoArg, 0), Rel("table", "r")>>, 0)
        ELSE IF pk_exists(t, LockUpdates["name"]) THEN Outcome(t, "go", <<>>, 0)
             ELSE Outcome(t, "err", <<>>, 0)

\* the steps of TableReader::select, add_column and add_column_scalar on a
\* reader that shares the table's vectors (table.rs 672-727, 754-796)
ReaderOutcome(t, s) ==
    LET rows == IF Len(t.rows) = 0 THEN << <<>> >> ELSE t.rows
        added == [schema |-> Append(t.schema, [name |-> "n", info |-> ColumnInformationDefault]),
                  rows |-> [i \in 1..Len(rows) |-> Append(rows[i], Some(S1))]]
        scalar == add_column_scalar(t.name :> t, SharedReader(t), "s",
                                    ColumnInformationDefault, <<to_string(0), S1>>)
    IN  CASE s.what = "indices" ->
                IF IsSome(Position(ColumnNames(t.schema), "name"))
                THEN Outcome(t, "go", <<>>, 0) ELSE Outcome(t, "panic", <<>>, 0)
          [] s.what = "push_column" ->
                Outcome([t EXCEPT !.schema = added.schema, !.rows = added.rows], "go", <<>>, 0)
          [] s.what = "push_scalar" ->
                Outcome(scalar.db[t.name], IF scalar.r.st = "ok" THEN "go" ELSE "panic",
                        <<>>, 0)
          [] OTHER -> Outcome(t, "go", <<>>, 0)

HandleOutcome(t, s) ==
    IF s.what \in {"get_foreign_key_constraint", "pk_exists"} THEN ForeignKeySteps(t, s)
    ELSE ReaderOutcome(t, s)

StepOutcome(t, s) ==
    CASE s.what \in {"validate_data", "index_insert", "rows_push"} -> InsertOutcome(t, s)
      [] s.what \in {"validate_pk", "find"} -> FindOutcome(t, s)
      [] s.what \in {"rows_remove", "index_remove", "write_cells"} -> WriteOutcome(t, s)
      [] s.what \in HandleWhats -> HandleOutcome(t, s)
      [] OTHER -> BulkOutcome(t, s)

\* RwLockReadGuard / RwLockWriteGuard handed out
Grant(lk, th, m) ==
    IF m = "w" THEN [lk EXCEPT !.writer = th] ELSE [lk EXCEPT !.readers = @ \cup {th}]

\* a guard dropped
DropGuard(lk, th, m) ==
    IF m = "w" THEN [lk EXCEPT !.writer = 0] ELSE [lk EXCEPT !.readers = @ \ {th}]

\* a panic unwinds the thread: every guard is dropped, and a lock whose
\* write guard is dropped during the panic is poisoned
PanicLocks(th, held) ==
    [l \in LockNames |->
        IF \E i \in 1..Len(held) : held[i] = <<l, "w">>
        THEN [locks[l] EXCEPT !.writer = 0, !.poisoned = TRUE]
        ELSE [locks[l] EXCEPT !.readers = @ \ {th}]]

ThreadNew ==
    [code |-> <<>>, held |-> <<>>, st |-> "idle", left |-> MaxStmts,
     stmt |-> Stmt("", None, <<>>), n |-> 0, failed |-> FALSE]

\* the statements the threads run
LockStmts ==
    {Stmt("DELETE", f, <<>>) : f \in {None, Some(Eq(0, S1))}}
    \cup {Stmt("UPDATE", f, <<>>) : f \in {None, Some(Eq(0, S1))}}
    \cup {Stmt("insert", None, <<S2, S1>>), Stmt("delete", None, <<S1>>),
          Stmt("read", None, <<>>)}

InitLocks ==
    /\ tables \in {"t" :> insert(TableNew("t", d).t, <<S1, S1>>).t : d \in {DefP, DefU}}
    /\ reader = None
    /\ registry = <<>>
    /\ session = [active_database |-> <<>>]
    /\ locks = [l \in LockNames |-> RwLockNew]
    /\ threads = [th \in Threads |-> ThreadNew]
    /\ last = Call("new", "t", <<>>, Ok(0))

\* a thread takes up its next statement
Begin(th, stmt) ==
    /\ threads[th].st = "idle"
    /\ threads[th].left > 0
    /\ stmt.kind = "insert" => Len(tables["t"].rows) < MaxRows
    /\ stmt.kind = "insert" =>
           \A o \in Threads : threads[o].st = "run" => threads[o].stmt.kind # "insert"
    /\ threads' = [threads EXCEPT ![th] =
                       [@ EXCEPT !.code = Program(stmt), !.st = "run", !.left = @ - 1,
                                 !.stmt = stmt, !.n = 0, !.failed = FALSE]]
    /\ UNCHANGED <<tables, reader, last, registry, session, locks>>

\* the thread panics: its statement ends here
ThreadPanics(th) ==
    /\ locks' = PanicLocks(th, threads[th].held)
    /\ threads' = [threads EXCEPT ![th] =
                       [@ EXCEPT !.code = <<>>, !.held = <<>>, !.st = "panicked"]]
    /\ last' = Call(threads[th].stmt.kind, "t", <<>>, Panic("thread panicked"))

\* RwLock::read().unwrap() / RwLock::write().unwrap(): blocks until the lock
\* can be granted; a poisoned lock makes unwrap panic
LockAcquire(th) ==
    LET s == Head(threads[th].code)
        lk == locks[s.lock]
    IN  /\ threads[th].st = "run"
        /\ threads[th].code # <<>>
        /\ s.op = "acquire"
        /\ IF s.mode = "w" THEN CanWrite(lk) ELSE CanRead(lk)
        /\ IF lk.poisoned THEN ThreadPanics(th)
           ELSE /\ locks' = [locks EXCEPT ![s.lock] = Grant(lk, th, s.mode)]
                /\ threads' = [threads EXCEPT ![th] =
                                   [@ EXCEPT !.code = Tail(@),
                                             !.held = Append(@, <<s.lock, s.mode>>)]]
                /\ UNCHANGED last
        /\ UNCHANGED <<tables, reader, registry, session>>

\* a guard goes out of scope
LockRelease(th) ==
    LET s == Head(threads[th].code)
    IN  /\ threads[th].st = "run"
        /\ threads[th].code # <<>>
        /\ s.op = "release"
        /\ locks' = [locks EXCEPT ![s.lock] = DropGuard(@, th, s.mode)]
        /\ threads' = [threads EXCEPT ![th] =
                           [@ EXCEPT !.code = Tail(@),
                                     !.held = SelectSeq(@, LAMBDA h : h # <<s.lock, s.mode>>)]]
        /\ UNCHANGED <<tables, reader, last, registry, session>>

\* the code between two lock operations
Compute(th) ==
    LET s == Head(threads[th].code)
        rest == Tail(threads[th].code)
        out == StepOutcome(tables["t"], s)
    IN  /\ threads[th].st = "run"
        /\ threads[th].code # <<>>
        /\ s.op = "do"
        /\ tables' = [tables EXCEPT !["t"] = out.t]
        /\ CASE out.how = "panic" -> ThreadPanics(th)
             [] out.how = "err" ->
                    /\ threads' = [threads EXCEPT ![th] =
                                       [@ EXCEPT !.code = Unwind(threads[th].held),
                                                 !.failed = TRUE]]
                    /\ UNCHANGED <<locks, last>>
             [] OTHER ->
                    /\ threads' = [threads EXCEPT ![th] =
                                       [@ EXCEPT !.code = SubSeq(rest, 1, s.keep) \o out.new
                                                          \o SubSeq(rest, s.keep + 1, Len(rest)),
                                                 !.n = @ + out.n]]
                    /\ UNCHANGED <<locks, last>>
        /\ UNCHANGED <<reader, registry, session>>

\* the statement returns: Ok with the count, or the error passed up by `?`
Finish(th) ==
    /\ threads[th].st = "run"
    /\ threads[th].code = <<>>
    /\ threads' = [threads EXCEPT ![th] = [@ EXCEPT !.st = "idle"]]
    /\ last' = Call(threads[th].stmt.kind, "t", <<>>,
                    IF threads[th].failed THEN Err("statement failed")
                    ELSE Ok(threads[th].n))
    /\ UNCHANGED <<tables, reader, registry, session, locks>>

ThreadStep(th) == LockAcquire(th) \/ LockRelease(th) \/ Compute(th) \/ Finish(th)

NextLocks ==
    \/ \E th \in Threads, stmt \in LockStmts : Begin(th, stmt)
    \/ \E th \in Threads : LockAcquire(th)
    \/ \E th \in Threads : LockRelease(th)
    \/ \E th \in Threads : Compute(th)
    \/ \E th \in Threads : Finish(th)

SpecLocks == InitLocks /\ [][NextLocks]_vars

\* every thread that can take a step eventually takes one
SpecLocksLive == SpecLocks /\ \A th \in Threads : WF_vars(ThreadStep(th))

----------------------------------------------------------------------------
(* C26 *)

\* the step a running thread is about to take
AtStep(th) == threads[th].st = "run" /\ threads[th].code # <<>>

OnExecutorPath(th) == threads[th].stmt.kind \in {"DELETE", "UPDATE"}

\* the thread asks for a lock it holds itself
SelfWait(th) ==
    /\ AtStep(th)
    /\ Head(threads[th].code).op = "acquire"
    /\ Holds(th, Head(threads[th].code).lock)

\* the thread asks for the table's write lock
AtTableWrite(th) == AtStep(th) /\ Head(threads[th].code) = Acq("table", "w")

----------------------------------------------------------------------------
(* C27 *)

\* the thread is between the two writes of an insert or a delete: one of
\* rows and index is changed, the other not yet
InMutation(th) ==
    /\ AtStep(th)
    /\ Head(threads[th].code).op = "do"
    /\ Head(threads[th].code).what \in {"rows_push", "index_remove"}

----------------------------------------------------------------------------
(* Aggregators, and the projection analysis of SELECT                       *)

AllowedAggregators == {"COUNT", "MIN", "MAX"}

AllowedScalars == {"ADD"}

\* the argument "*" handed to an aggregator
Star == <<"*">>

\* count::run with the column index shifted by one
count_run_shifted(args, rows) ==
    IF \E i \in 1..Len(args) : args[i] = Star
    THEN [st |-> "ok", err |-> "", n |-> 0, value |-> to_string(Len(rows))]
    ELSE [st |-> "ok", err |-> "", n |-> 0,
          value |-> to_string(Cardinality({i \in 1..Len(rows) :
                                  Unwrap(ParseUsize(args[1])) + 2 <= Len(rows[i])}))]

\* count::run: row.0.get(col_index).is_some() holds for every row that has a
\* cell at col_index
count_run(args, rows) ==
    LET col_index == ParseUsize(args[1])
    IN  IF \E i \in 1..Len(args) : args[i] = Star
        THEN [st |-> "ok", err |-> "", n |-> 0, value |-> to_string(Len(rows))]
        ELSE IF Len(args) > 1 THEN Err("COUNT takes in a wildcard or a single column.")
        ELSE IF Len(args) = 0 THEN Panic("unwrap on None")
        ELSE IF ~IsSome(col_index) THEN Panic("No index specified.")
        ELSE [st |-> "ok", err |-> "", n |-> 0,
              value |-> to_string(Cardinality({i \in 1..Len(rows) :
                                      Unwrap(col_index) + 1 <= Len(rows[i])}))]

\* the fold of min::run: the smallest cell so far, None before the first row
RECURSIVE MinFrom(_, _, _, _)
MinFrom(rows, col_index, i, max) ==
    IF i > Len(rows) THEN [st |-> "ok", cell |-> max]
    ELSE IF col_index + 1 > Len(rows[i]) THEN MinFrom(rows, col_index, i + 1, max)
    ELSE IF ~IsSome(max) THEN MinFrom(rows, col_index, i + 1, rows[i][col_index + 1])
    ELSE IF ~IsSome(rows[i][col_index + 1]) THEN [st |-> "panic", cell |-> None]
    ELSE IF StrCmp(Unwrap(rows[i][col_index + 1]), Unwrap(max)) < 0
    THEN MinFrom(rows, col_index, i + 1, rows[i][col_index + 1])
    ELSE MinFrom(rows, col_index, i + 1, max)

\* min::run
min_run(args, rows) ==
    LET col_index == ParseUsize(args[1])
        max == MinFrom(rows, Unwrap(col_index), 1, None)
    IN  IF Len(args) > 1 THEN Err("MIN strictly allows a single column.")
        ELSE IF Len(args) = 0 THEN Panic("unwrap on None")
        ELSE IF ~IsSome(col_index) THEN Panic("No index specified.")
        ELSE IF max.st # "ok" \/ ~IsSome(max.cell) THEN Panic("unwrap on None")
        ELSE [st |-> "ok", err |-> "", n |-> 0, value |-> Unwrap(max.cell)]

\* aggregators::run, on name.to_uppercase(); max.rs is not part of the source
\* tree and no statement run here calls MAX
aggregators_run(name, args, rows) ==
    CASE name \in {"COUNT", "count"} -> count_run(args, rows)
      [] name \in {"MIN", "min"} -> min_run(args, rows)
      [] OTHER -> Err("Unknown aggregate function")

\* TableReader::new
TableReaderNew == TableReader("", FALSE, FALSE, <<>>, <<>>)

\* TableReader::add_column on a reader that owns its vectors
add_column(rd, col_name, col_info, value) ==
    LET rows == IF Len(rd.rows) = 0 THEN << <<>> >> ELSE rd.rows
    IN  [rd EXCEPT !.schema = Append(@, [name |-> col_name, info |-> col_info]),
                   !.rows = [i \in 1..Len(rows) |-> Append(rows[i], Some(value))]]

\* the loop of perform_aggregate over the arguments of one aggregator
RECURSIVE AggrArgs(_, _, _, _)
AggrArgs(schema, args, i, aggr_args) ==
    IF i > Len(args) THEN [r |-> Ok(0), args |-> aggr_args]
    ELSE IF args[i].kind = "Wildcard" THEN AggrArgs(schema, args, i + 1, Append(aggr_args, Star))
    ELSE LET col_index == Position(ColumnNames(schema), args[i].column)
         IN  IF ~IsSome(col_index) THEN [r |-> Panic("unwrap on None"), args |-> <<>>]
             ELSE AggrArgs(schema, args, i + 1,
                           Append(aggr_args, to_string(Unwrap(col_index))))

\* the loop of perform_aggregate over func_vec: items that are not functions
\* are passed over
RECURSIVE AggregateFrom(_, _, _, _, _)
AggregateFrom(t, rows, func_vec, result, i) ==
    IF i > Len(func_vec) THEN [rd |-> Some(result), r |-> Ok(0)]
    ELSE IF func_vec[i].kind # "Function" THEN AggregateFrom(t, rows, func_vec, result, i + 1)
    ELSE LET aggr == func_vec[i]
             a == AggrArgs(t.schema, aggr.args, 1, <<>>)
             aggr_value == aggregators_run(aggr.name, a.args, rows)
         IN  IF a.r.st # "ok" THEN [rd |-> None, r |-> a.r]
             ELSE IF aggr_value.st # "ok"
             THEN [rd |-> None, r |-> [st |-> aggr_value.st, err |-> aggr_value.err, n |-> 0]]
             ELSE AggregateFrom(t, rows, func_vec,
                      add_column(result,
                                 IF IsSome(aggr.alias) THEN Unwrap(aggr.alias) ELSE aggr.name,
                                 ColumnInformationDefault, aggr_value.value),
                      i + 1)

\* Table::perform_aggregate: one snapshot of the rows serves every aggregator
perform_aggregate(t, func_vec) == AggregateFrom(t, t.rows, func_vec, TableReaderNew, 1)

\* the items of a SELECT list
UnnamedExpr(expr) == [kind |-> "UnnamedExpr", expr |-> expr, alias |-> None]

ExprWithAlias(expr, alias) == [kind |-> "ExprWithAlias", expr |-> expr, alias |-> Some(alias)]

Wildcard == [kind |-> "Wildcard", expr |-> Identifier("*"), alias |-> None]

\* a function call of the list, its arguments as _extract_function_argument
\* yields them
FunctionExpr(name, args) == [kind |-> "Function", name |-> name, args |-> args]

\* SqlExecutor::_extract_function: the function type follows from the name
_extract_function(func, alias) ==
    IF func.name \in AllowedAggregators \cup AllowedScalars
    THEN [r |-> Ok(0),
          col |-> [kind |-> "Function", name |-> func.name, args |-> func.args,
                   alias |-> alias]]
    ELSE [r |-> Err("not an allowed aggregator or scalar"), col |-> <<>>]

\* the mode after an item: the first named column or function call sets it
ModeAfter(select_mode, mode) == IF IsSome(select_mode) THEN select_mode ELSE Some(mode)

\* SqlExecutor::_extract_column_names: the loop over select.projection
RECURSIVE ExtractItems(_, _, _, _)
ExtractItems(projection, i, column_names, select_mode) ==
    IF i > Len(projection)
    THEN [r |-> Ok(0), column_names |-> column_names,
          select_mode |-> IF IsSome(select_mode) THEN Unwrap(select_mode) ELSE "Column"]
    ELSE LET item == projection[i]
             function == _extract_function(item.expr, item.alias)
             rejected == [column_names |-> <<>>, select_mode |-> "Column"]
         IN  CASE item.kind \in {"Wildcard", "QualifiedWildcard"} ->
                      ExtractItems(projection, i + 1, Append(column_names, Column("*")),
                                   select_mode)
               [] item.kind \notin {"Wildcard", "QualifiedWildcard"}
                  /\ item.expr.kind = "Identifier" ->
                      IF select_mode = Some("Aggregate")
                      THEN [r |-> Err("columns not allowed with aggregators.")] @@ rejected
                      ELSE ExtractItems(projection, i + 1,
                               Append(column_names,
                                      [kind |-> "Column", name |-> item.expr.value,
                                       alias |-> item.alias]),
                               ModeAfter(select_mode, "Column"))
               [] item.kind \notin {"Wildcard", "QualifiedWildcard"}
                  /\ item.expr.kind = "Function" ->
                      IF function.r.st # "ok" THEN [r |-> function.r] @@ rejected
                      ELSE IF select_mode = Some("Column")
                              /\ function.col.name \in AllowedAggregators
                      THEN [r |-> Err("aggregators not allowed with columns.")] @@ rejected
                      ELSE ExtractItems(projection, i + 1, Append(column_names, function.col),
                                        ModeAfter(select_mode, "Aggregate"))
               [] OTHER -> [r |-> Err("Invalid column identifier expression")] @@ rejected

_extract_column_names(projection) == ExtractItems(projection, 1, <<>>, None)

\* ORDER BY: the keys, each with its options.asc
OrderByExpr(expr, asc) == [expr |-> expr, asc |-> asc]

\* the loop of SqlExecutor::_order_by over the keys: how |-> "return" when a
\* key carries no direction
RECURSIVE SortIndexFrom(_, _, _, _)
SortIndexFrom(expressions, schema, i, sort_index) ==
    IF i > Len(expressions) THEN [r |-> Ok(0), how |-> "sort", sort_index |-> sort_index]
    ELSE IF ~IsSome(expressions[i].asc)
    THEN [r |-> Ok(0), how |-> "return", sort_index |-> <<>>]
    ELSE LET identifier == _parse_expr(expressions[i].expr)
             col_index == Position(ColumnNames(schema), identifier.value)
         IN  IF identifier.r.st # "ok"
             THEN [r |-> identifier.r, how |-> "err", sort_index |-> <<>>]
             ELSE SortIndexFrom(expressions, schema, i + 1,
                      IF IsSome(col_index)
                      THEN Append(sort_index, <<Unwrap(col_index), Unwrap(expressions[i].asc)>>)
                      ELSE sort_index)

\* SqlExecutor::_order_by; n_rows_processed is the row count of the result
_order_by(out, expressions) ==
    LET s == SortIndexFrom(expressions, ReaderSchema(out.db, Unwrap(out.rd)), 1, <<>>)
        sorted == reader_order_by(out.db, Unwrap(out.rd), s.sort_index)
    IN  IF s.r.st # "ok" THEN [db |-> out.db, rd |-> None, r |-> s.r]
        ELSE IF s.how = "return" THEN out
        ELSE [db |-> sorted.db, rd |-> sorted.rd,
              r |-> Ok(Len(scan(sorted.db, Unwrap(sorted.rd))))]

\* the clauses LIMIT n OFFSET k (either part optional) and LIMIT k, n
LimitOffset(limit, offset) == [kind |-> "LimitOffset", limit |-> limit, offset |-> offset]

OffsetCommaLimit(offset, limit) ==
    [kind |-> "OffsetCommaLimit", limit |-> Some(limit), offset |-> Some(offset)]

\* _parse_expr(..)?.parse().expect(..) of an optional bound
BoundValue(expr) ==
    LET v == _parse_expr(Unwrap(expr))
    IN  IF ~IsSome(expr) THEN [r |-> Ok(0), n |-> None]
        ELSE IF v.r.st # "ok" THEN [r |-> v.r, n |-> None]
        ELSE IF ~IsSome(ParseUsize(v.value))
        THEN [r |-> Panic("String values not allowed as limits."), n |-> None]
        ELSE [r |-> Ok(0), n |-> ParseUsize(v.value)]

\* the reader cut the other way round: limit first, then offset
LimitThenOffset(db, rd, row_offset, row_limit) ==
    reader_offset(db, Unwrap(reader_limit(db, rd, row_limit).rd), row_offset)

\* old_table_reader.offset(row_offset)?.limit(row_limit)?
OffsetThenLimit(db, rd, row_offset, row_limit) ==
    reader_limit(db, Unwrap(reader_offset(db, rd, row_offset).rd), row_limit)

\* SqlExecutor::_limit_offset: LimitOffset reads its limit first, OffsetCommaLimit
\* its offset
_limit_offset(out, limit_clause) ==
    LET limit == BoundValue(limit_clause.limit)
        offset == BoundValue(limit_clause.offset)
        first == IF limit_clause.kind = "LimitOffset" THEN limit ELSE offset
        second == IF limit_clause.kind = "LimitOffset" THEN offset ELSE limit
        cut == OffsetThenLimit(out.db, Unwrap(out.rd), offset.n, limit.n)
    IN  IF first.r.st # "ok" THEN [db |-> out.db, rd |-> None, r |-> first.r]
        ELSE IF second.r.st # "ok" THEN [db |-> out.db, rd |-> None, r |-> second.r]
        ELSE [db |-> cut.db, rd |-> cut.rd, r |-> Ok(Len(scan(cut.db, Unwrap(cut.rd))))]

\* the body of Statement::Query: the mode picks Table::perform_aggregate or
\* the column pipeline
SelectBody(db, table_name, x, selection) ==
    LET aggregate_result == perform_aggregate(db[table_name], x.column_names)
    IN  IF x.r.st # "ok" THEN [db |-> db, rd |-> None, r |-> x.r]
        ELSE IF ~contains_table(db, table_name)
        THEN [db |-> db, rd |-> None, r |-> Err("Table does not exist!")]
        ELSE IF x.select_mode = "Aggregate"
        THEN [db |-> db, rd |-> aggregate_result.rd, r |-> aggregate_result.r]
        ELSE execute_query(db, table_name, x.column_names, selection)

SelectOrdered(out, order_by) ==
    IF out.r.st # "ok" \/ ~IsSome(order_by) THEN out ELSE _order_by(out, Unwrap(order_by))

SelectLimited(out, limit_clause) ==
    IF out.r.st # "ok" \/ ~IsSome(limit_clause) THEN out
    ELSE _limit_offset(out, Unwrap(limit_clause))

\* SqlExecutor::execute, Statement::Query
execute_select(db, table_name, projection, selection, order_by, limit_clause) ==
    SelectLimited(
        SelectOrdered(
            SelectBody(db, table_name, _extract_column_names(projection), selection),
            order_by),
        limit_clause)

----------------------------------------------------------------------------
(* The query specification: SELECT statements on a table "t" that holds    *)
(* up to MaxRows rows.                                                      *)

S3 == <<"3">>

SelectData == {<<S2, SX>>, <<S1, S1>>, <<S3, S1>>}

\* the row batches the table is filled with: distinct rows, in every order
SelectBatches ==
    UNION {{b \in [1..k -> SelectData] : \A i, j \in 1..k : i # j => b[i] # b[j]}
           : k \in 0..MaxRows}

CountOf(arg) == UnnamedExpr(FunctionExpr("COUNT", <<arg>>))

SelectProjections ==
    {<<Wildcard>>,
     <<UnnamedExpr(Identifier("name"))>>,
     <<CountOf(ArgWildcard)>>,
     <<CountOf(ArgColumn("name"))>>,
     <<ExprWithAlias(FunctionExpr("COUNT", <<ArgColumn("id")>>), "n"),
       UnnamedExpr(FunctionExpr("MIN", <<ArgColumn("name")>>))>>,
     <<UnnamedExpr(Identifier("id")), CountOf(ArgWildcard)>>,
     <<CountOf(ArgWildcard), UnnamedExpr(Identifier("id"))>>,
     <<CountOf(ArgWildcard), Wildcard>>,
     <<Wildcard, CountOf(ArgColumn("id"))>>,
     <<UnnamedExpr(FunctionExpr("ADD", <<ArgColumn("id"), ArgColumn(S1)>>)),
       UnnamedExpr(Identifier("name"))>>}

SelectSelections == {None, Some(BinaryOp(Identifier("name"), "Eq", Str(S1)))}

SelectOrderBys ==
    {None,
     Some(<<OrderByExpr(Identifier("id"), Some(FALSE))>>),
     Some(<<OrderByExpr(Identifier("name"), Some(TRUE)),
            OrderByExpr(Identifier("id"), Some(FALSE))>>),
     Some(<<OrderByExpr(Identifier("id"), None)>>)}

Bound(n) == Some(Num(to_string(n)))

SelectLimits ==
    {None,
     Some(LimitOffset(None, Bound(2))),
     Some(OffsetCommaLimit(Num(S1), Num(S2)))}
    \cup {Some(LimitOffset(Bound(n), None)) : n \in {0, MaxRows + 1}}
    \cup {Some(LimitOffset(Bound(1), Bound(k))) : k \in {1, MaxRows + 1}}

SelectStatement(projection, selection, order_by, limit_clause) ==
    [projection |-> projection, selection |-> selection, order_by |-> order_by,
     limit_clause |-> limit_clause]

\* the statements run: every ORDER BY and LIMIT clause on the lists of the
\* column pipeline, the WHERE clause on SELECT *, the other lists bare or
\* with a LIMIT clause
SelectStatements ==
    {SelectStatement(p, None, o, l) :
        p \in {<<Wildcard>>, <<UnnamedExpr(Identifier("name"))>>},
        o \in SelectOrderBys, l \in SelectLimits}
    \cup {SelectStatement(<<Wildcard>>, w, o, l) :
             w \in SelectSelections, o \in SelectOrderBys, l \in SelectLimits}
    \cup {SelectStatement(p, None, None, l) :
             p \in SelectProjections,
             l \in {None, Some(LimitOffset(Bound(0), None)),
                    Some(LimitOffset(Bound(1), Bound(1)))}}

InitSelect ==
    /\ tables \in {insert_many_into_table(create_table(DatabaseNew, "t", DefP).db, "t", b).db
                   : b \in SelectBatches}
    /\ reader = None
    /\ registry = <<>>
    /\ session = [active_database |-> <<>>]
    /\ locks = <<>>
    /\ threads = <<>>
    /\ last = Call("Database::new", "", <<>>, Ok(0))

\* one SELECT statement: arg keeps its clauses
ExecuteSelect(projection, selection, order_by, limit_clause) ==
    LET out == execute_select(tables, "t", projection, selection, order_by, limit_clause)
    IN  /\ Running
        /\ tables' = out.db
        /\ reader' = out.rd
        /\ last' = Call("QUERY", "t",
                        [projection |-> projection, selection |-> selection,
                         order_by |-> order_by, limit_clause |-> limit_clause],
                        out.r)
        /\ UNCHANGED <<registry, session, locks, threads>>

NextSelect ==
    \E s \in SelectStatements :
        ExecuteSelect(s.projection, s.selection, s.order_by, s.limit_clause)

SpecSelect == InitSelect /\ [][NextSelect]_vars

----------------------------------------------------------------------------
(* C28 *)

IsAggregatorItem(item) ==
    /\ item.kind \in {"UnnamedExpr", "ExprWithAlias"}
    /\ item.expr.kind = "Function"
    /\ item.expr.name \in AllowedAggregators

IsColumnItem(item) ==
    \/ item.kind \in {"Wildcard", "QualifiedWildcard"}
    \/ item.expr.kind = "Identifier"

\* the list holds an aggregator call and a column item
MixesAggregatorsWithColumns(projection) ==
    /\ \E i \in 1..Len(projection) : IsAggregatorItem(projection[i])
    /\ \E i \in 1..Len(projection) : IsColumnItem(projection[i])

\* C28: a SELECT list that holds both an aggregator call and a column item (a
\* named column or the wildcard), in whatever order, is rejected by the
\* projection analysis: the statement returns an error and yields no result
\* table, from perform_aggregate or from the column pipeline.
C28_MixedListRejected ==
    [][(last'.op = "QUERY" /\ MixesAggregatorsWithColumns(last'.arg.projection))
       => /\ _extract_column_names(last'.arg.projection).r.st = "err"
          /\ last'.r.st = "err"
          /\ reader' = None]_vars

----------------------------------------------------------------------------
(* C29 *)

\* the number of rows whose cell at col_index is there and not null
NonNullAt(rows, col_index) ==
    Cardinality({i \in 1..Len(rows) :
                    col_index + 1 <= Len(rows[i]) /\ IsSome(rows[i][col_index + 1])})

\* what COUNT(arg) is to return over the rows of t
CountExpected(t, arg) ==
    IF arg.kind = "Wildcard" THEN to_string(Len(t.rows))
    ELSE to_string(NonNullAt(t.rows, Unwrap(Position(ColumnNames(t.schema), arg.column))))

----------------------------------------------------------------------------
(* C30 *)

\* the number a bound stands for; an absent bound stands for `absent`
BoundOr(expr, absent) ==
    IF IsSome(expr) THEN Unwrap(ParseUsize(Unwrap(expr).value)) ELSE absent

\* rows from position min(k, len) up to min(k + n, len)
Slice(rows, k, n) == SubSeq(rows, Min(k, Len(rows)) + 1, Min(k + n, Len(rows)))

\* C30: a SELECT with a LIMIT/OFFSET clause (either form) returns the slice
\* of the rows the same statement returns without the clause, filtered and
\* ordered, from min(k, len) up to min(k + n, len); a bound at or beyond the
\* row count gives a shorter or empty result and no error, an absent bound
\* cuts nothing.
C30_LimitOffsetSlices ==
    [][(last'.op = "QUERY" /\ IsSome(last'.arg.limit_clause))
       => LET a == last'.arg
              base == execute_select(tables, "t", a.projection, a.selection, a.order_by, None)
              rows == scan(base.db, Unwrap(base.rd))
              k == BoundOr(Unwrap(a.limit_clause).offset, 0)
              n == BoundOr(Unwrap(a.limit_clause).limit, Len(rows))
          IN  base.r.st = "ok"
              => /\ last'.r.st = "ok"
                 /\ IsSome(reader')
                 /\ scan(tables', Unwrap(reader')) = Slice(rows, k, n)]_vars

\* ORDER BY id DESC LIMIT 1 OFFSET 1 over the rows 1 and 2 gave the row 1
C30_Witness ==
    /\ last.op = "QUERY"
    /\ last.arg.projection = <<Wildcard>>
    /\ last.arg.order_by = Some(<<OrderByExpr(Identifier("id"), Some(FALSE))>>)
    /\ last.arg.limit_clause = Some(LimitOffset(Bound(1), Bound(1)))
    /\ Len(tables["t"].rows) = 2
    /\ last.r = Ok(1)
    /\ IsSome(reader)
    /\ scan(tables, Unwrap(reader)) = << <<Some(S1), Some(S1)>> >>

----------------------------------------------------------------------------
(* C31 *)

\* the keys of an ORDER BY clause as (column position in schema, ascending)
KeysOn(schema, expressions) ==
    [i \in 1..Len(expressions) |->
        <<Unwrap(Position(ColumnNames(schema), expressions[i].expr.value)),
          Unwrap(expressions[i].asc)>>]

\* the cells of a table row that the SELECT list shows
Shown(projection, schema, row) ==
    IF projection = <<Wildcard>> THEN row
    ELSE [i \in 1..Len(projection) |->
             row[Unwrap(Position(ColumnNames(schema), projection[i].expr.value)) + 1]]

\* result shows the rows of t in the order of the keys, ties in table order
ShownSorted(t, projection, keys, result) ==
    /\ Len(result) = Len(t.rows)
    /\ \E p \in Perms(Len(t.rows)) :
          /\ \A i \in 1..Len(t.rows) : result[i] = Shown(projection, t.schema, t.rows[p[i]])
          /\ \A i, j \in 1..Len(t.rows) :
                i < j => \/ KeyOrder(t.rows[p[i]], t.rows[p[j]], keys) < 0
                         \/ KeyOrder(t.rows[p[i]], t.rows[p[j]], keys) = 0 /\ p[i] < p[j]

\* C31: when a sort key of an ORDER BY clause carries no ASC or DESC, the
\* clause is ignored and the rows come in the order they have without it,
\* whatever the other keys say; when every key carries a direction, the rows
\* are sorted by the keys in the order written.
C31_OrderByDirections ==
    [][(last'.op = "QUERY"
        /\ last'.arg.projection \in {<<Wildcard>>, <<UnnamedExpr(Identifier("name"))>>}
        /\ last'.arg.selection = None
        /\ IsSome(last'.arg.order_by)
        /\ last'.arg.limit_clause = None)
       => LET a == last'.arg
              expressions == Unwrap(a.order_by)
              base == execute_select(tables, "t", a.projection, None, None, None)
          IN  /\ last'.r.st = "ok"
              /\ IsSome(reader')
              /\ IF \E i \in 1..Len(expressions) : ~IsSome(expressions[i].asc)
                 THEN scan(tables', Unwrap(reader')) = scan(base.db, Unwrap(base.rd))
                 ELSE ShownSorted(tables["t"], a.projection,
                                  KeysOn(tables["t"].schema, expressions),
                                  scan(tables', Unwrap(reader')))]_vars

----------------------------------------------------------------------------
(* pk_exists against the rows vector *)

\* the primary-key strings the table's schema allows the model to build
KeyStrings == {<<d>> : d \in Digits} \cup {S1 \o <<"|">> \o S1, Empty, SX}

\* C32: in every reachable state of an indexed table pk_exists(k) is true
\* exactly when some row of the rows vector has primary-key string k.
C32_PkExistsIffRowPresent ==
    \A n \in DOMAIN tables :
        LET t == tables[n]
        IN  t.is_indexed =>
                \A k \in (DOMAIN t.index) \cup RowKeys(t) \cup KeyStrings :
                    pk_exists(t, k) <=> k \in RowKeys(t)

----------------------------------------------------------------------------
(* update of a primary-key column *)

\* C33: after a successful update that changes the primary key of a row of an
\* indexed table from k to k2, the lookup that update and delete use finds that
\* row under k2 and finds no row under k.
C33_UpdatedKeyLocatesRow ==
    [][(/\ last'.op = "update"
        /\ last'.r.st = "ok"
        /\ tables[last'.table].is_indexed
        /\ IsSome(_find_row(tables[last'.table], last'.arg))
        /\ Unwrap(_find_row(tables[last'.table], last'.arg)) < Len(tables[last'.table].rows)
        /\ LET p == Unwrap(_find_row(tables[last'.table], last'.arg)) + 1
           IN  _extract_pk_values(tables'[last'.table], tables'[last'.table].rows[p])
                   # _extract_pk_values(tables[last'.table], tables[last'.table].rows[p]))
       => LET t == tables[last'.table]
              t2 == tables'[last'.table]
              p == Unwrap(_find_row(t, last'.arg)) + 1
              k == _extract_pk_values(t, t.rows[p])
              k2 == _extract_pk_values(t2, t2.rows[p])
          IN  /\ _find_row(t2, k2) = Some(p - 1)
              /\ _find_row(t2, k) = None]_vars

----------------------------------------------------------------------------
(* Calls through shared handles: two threads, one database with the table  *)
(* t, a TableReader made by Table::reader that shares the table's schema   *)
(* and rows vectors.                                                        *)

\* a table whose column name carries a foreign key to the table itself
DefSelf == << <<"id", "num", "pk">>, <<"name", "num", "fk", "t.id">> >>

\* Database::update_table_set (database.rs 194-235) with the data of
\* LockUpdates: the table's write guard is held to the end of the call, the
\* schema guard of the `if let` scrutinee through the foreign-key check
UpdateTableSetSteps(pk) ==
    <<Acq("table", "w"), Acq("schema", "r"),
      Do("get_foreign_key_constraint", NoArg, 0),
      Rel("schema", "r")>>
    \o KeySteps(pk, "update") \o <<Rel("table", "w")>>

\* table.write().unwrap().update(pk, data) on a shared handle
HandleUpdate(pk) == <<Acq("table", "w")>> \o KeySteps(pk, "update") \o <<Rel("table", "w")>>

\* TableReader::select (table.rs 754-796)
ReaderSelectSteps ==
    <<Acq("schema", "r"), Do("indices", NoArg, 0), Acq("rows", "r"),
      Do("project", NoArg, 0), Rel("rows", "r"), Rel("schema", "r")>>

\* TableReader::add_column and add_column_scalar (table.rs 672-727)
AddColumnSteps(what) ==
    <<Acq("schema", "w"), Acq("rows", "w"), Do(what, NoArg, 0),
      Rel("rows", "w"), Rel("schema", "w")>>

HandleProgram(stmt) ==
    CASE stmt.kind = "update_table_set" -> UpdateTableSetSteps(stmt.data)
      [] stmt.kind = "update" -> HandleUpdate(stmt.data)
      [] stmt.kind = "select" -> ReaderSelectSteps
      [] stmt.kind = "add_column" -> AddColumnSteps("push_column")
      [] OTHER -> AddColumnSteps("push_scalar")

ReaderKinds == {"select", "add_column", "add_column_scalar"}

HandleStmts ==
    {Stmt("update_table_set", None, <<S1>>), Stmt("update", None, <<S1>>)}
    \cup {Stmt(k, None, <<>>) : k \in ReaderKinds}

InitHandles ==
    /\ tables \in {"t" :> insert(TableNew("t", DefP).t, <<S1, S1>>).t,
                   "t" :> TableNew("t", DefSelf).t}
    /\ reader = Some(table_reader("t"))
    /\ registry = <<>>
    /\ session = [active_database |-> <<>>]
    /\ locks = [l \in LockNames |-> RwLockNew]
    /\ threads = [th \in Threads |-> ThreadNew]
    /\ last = Call("new", "t", <<>>, Ok(0))

\* a thread takes up its next call
BeginCall(th, stmt) ==
    /\ threads[th].st = "idle"
    /\ threads[th].left > 0
    /\ threads' = [threads EXCEPT ![th] =
                       [@ EXCEPT !.code = HandleProgram(stmt), !.st = "run", !.left = @ - 1,
                                 !.stmt = stmt, !.n = 0, !.failed = FALSE]]
    /\ UNCHANGED <<tables, reader, last, registry, session, locks>>

\* the thread asks for a lock it holds itself in a mode that excludes the request
SelfLocked(th) ==
    /\ threads[th].st = "run"
    /\ threads[th].code # <<>>
    /\ Head(threads[th].code).op = "acquire"
    /\ \/ locks[Head(threads[th].code).lock].writer = th
       \/ Head(threads[th].code).mode = "w" /\ th \in locks[Head(threads[th].code).lock].readers

\* RwLock::read / write of a lock the thread holds: the call blocks for ever
\* or panics, as the platform's lock has it
SelfLockPanics(th) ==
    /\ SelfLocked(th)
    /\ ThreadPanics(th)
    /\ UNCHANGED <<tables, reader, registry, session>>

NextHandles ==
    \/ \E th \in Threads, stmt \in HandleStmts : BeginCall(th, stmt)
    \/ \E th \in Threads : LockAcquire(th)
    \/ \E th \in Threads : LockRelease(th)
    \/ \E th \in Threads : Compute(th)
    \/ \E th \in Threads : Finish(th)
    \/ \E th \in Threads : SelfLockPanics(th)

SpecHandles == InitHandles /\ [][NextHandles]_vars

\* C34: a thread running Database.update_table_set never asks for the read
\* lock of the table whose write lock it holds, so the call terminates.
C34_NoReadUnderOwnWriteLock ==
    \A th \in Threads :
        ~(/\ threads[th].st = "run"
          /\ threads[th].stmt.kind = "update_table_set"
          /\ threads[th].code # <<>>
          /\ Head(threads[th].code) = Acq("table", "r")
          /\ locks["table"].writer = th)

\* the thread waits for a lock that cannot be granted now
Blocked(th) ==
    /\ threads[th].st = "run"
    /\ threads[th].code # <<>>
    /\ Head(threads[th].code).op = "acquire"
    /\ ~(IF Head(threads[th].code).mode = "w"
         THEN CanWrite(locks[Head(threads[th].code).lock])
         ELSE CanRead(locks[Head(threads[th].code).lock]))

WaitsFor(a, b) == Blocked(a) /\ Holds(b, Head(threads[a].code).lock)

\* C35: a thread running Table.update and a thread running select, add_column
\* or add_column_scalar on a reader sharing the table's handles never wait
\* for each other's rows and schema locks.
C35_UpdateAndReaderNeverDeadlock ==
    \A a, b \in Threads :
        (/\ threads[a].stmt.kind = "update"
         /\ threads[b].stmt.kind \in ReaderKinds)
        => ~(WaitsFor(a, b) /\ WaitsFor(b, a))

----------------------------------------------------------------------------
(* a failing update *)

\* C36: a Table.update call that returns an error leaves every cell of every
\* row unchanged, also when only one of several named columns is invalid.
C36_FailedUpdateChangesNothing ==
    [][(last'.op = "update" /\ last'.r.st = "err")
       => tables'[last'.table].rows = tables[last'.table].rows]_vars

----------------------------------------------------------------------------
(* null cells *)

\* every column of the table is non-nullable and every cell of every row holds a value
NoNullCell(t) ==
    /\ \A c \in 1..Len(t.schema) : ~t.schema[c].info.nullable
    /\ \A i \in 1..Len(t.rows) : \A c \in 1..Len(t.rows[i]) : IsSome(t.rows[i][c])

\* C37: in every reachable state every cell of every stored row is non-null,
\* and no call fails on a null cell while building a primary-key string.
C37_NoNullCellStored ==
    /\ \A n \in DOMAIN tables : NoNullCell(tables[n])
    /\ last.r.err # "unwrap on None key cell"

\* an empty value was offered for a cell of a table that holds rows, and was rejected
C37_Witness ==
    /\ last.op \in {"insert", "update"}
    /\ last.r.err = "invalid NULL"
    /\ Len(tables["t"].rows) > 0
    /\ tables["t"].is_indexed

----------------------------------------------------------------------------
(* The session's statements on databases: USE, CREATE DATABASE, DROP       *)
(* DATABASE, and the statements that run on the active database.  `tables` *)
(* is the Database in the allocation the session's handle points to; a     *)
(* registry entry with the same allocation is the same Database.           *)

SessionDbNames == {"a", "b"}

\* Session::drop_database that also lets go of the handle of the dropped database
session_drop_database_clearing(s, r, db_name) ==
    LET out == drop_database(r, db_name)
    IN  [session |-> IF out.r.st = "ok" /\ s.active_database = Some(out.r.n)
                     THEN [s EXCEPT !.active_database = None] ELSE s,
         registry |-> out.registry, r |-> out.r]

\* Session::drop_database (session.rs 147-152): the registry alone is changed
session_drop_database(s, r, db_name) ==
    LET out == drop_database(r, db_name)
    IN  [session |-> s, registry |-> out.registry, r |-> out.r]

\* SqlExecutor::_get_db_from_session
_get_db_from_session(s) ==
    IF IsSome(s.active_database) THEN Ok(Unwrap(s.active_database))
    ELSE Err("no database currently selected.")

\* a write through the handle arc: every entry of the registry that points to
\* the allocation holds the written Database
WriteThrough(r, arc, db) ==
    [i \in 1..Len(r) |-> IF r[i].value.arc = arc THEN [r[i] EXCEPT !.value.db = db] ELSE r[i]]

\* the Database behind the handle arc, as the registry shows it
Behind(r, arc) == r[CHOOSE i \in 1..Len(r) : r[i].value.arc = arc].value.db

InitSession ==
    /\ tables = DatabaseNew
    /\ reader = None
    /\ registry = RegistryNew
    /\ session = SessionClient
    /\ locks = <<>>
    /\ threads = <<>>
    /\ last = Call("Session::client", "", <<>>, Ok(0))

\* Statement::Use (commands.rs 1239-1260)
StatementUse(db_name) ==
    LET out == use_database(session, registry, db_name)
    IN  /\ last.r.st # "panic"
        /\ session' = out.session
        /\ tables' = IF out.r.st = "ok"
                     THEN Behind(registry, Unwrap(out.session.active_database)) ELSE tables
        /\ last' = Call("USE", db_name, <<>>, out.r)
        /\ UNCHANGED <<reader, registry, locks, threads>>

\* Statement::CreateDatabase (commands.rs 1224-1238)
StatementCreateDatabase(db_name, if_not_exists) ==
    LET out == create_database(registry, db_name, if_not_exists)
    IN  /\ last.r.st # "panic"
        /\ registry' = out.registry
        /\ last' = Call("CREATE DATABASE", db_name, <<if_not_exists>>,
                        IF out.r.st = "ok" THEN Ok(0) ELSE out.r)
        /\ UNCHANGED <<tables, reader, session, locks, threads>>

\* Statement::Drop of a database (commands.rs 1284-1317)
StatementDropDatabase(db_name, if_exists) ==
    LET out == session_drop_database(session, registry, db_name)
    IN  /\ last.r.st # "panic"
        /\ registry' = out.registry
        /\ session' = out.session
        /\ last' = Call("DROP DATABASE", db_name, <<if_exists>>,
                        IF out.r = Absent /\ ~if_exists THEN Err("No other case is handled yet.")
                        ELSE Ok(0))
        /\ UNCHANGED <<tables, reader, locks, threads>>

\* a statement that writes the active database: its outcome out is computed
\* on the Database behind the session's handle
StatementOnActive(op, n, out) ==
    LET db == _get_db_from_session(session)
    IN  /\ last.r.st # "panic"
        /\ IF db.st # "ok"
           THEN /\ last' = Call(op, n, <<>>, db)
                /\ UNCHANGED <<tables, registry>>
           ELSE /\ tables' = out.db
                /\ registry' = WriteThrough(registry, db.n, out.db)
                /\ last' = Call(op, n, <<>>, out.r)
        /\ UNCHANGED <<reader, session, locks, threads>>

\* Statement::CreateTable (commands.rs 1077-1129)
StatementCreateTable(n, column_definitions) ==
    StatementOnActive("CREATE TABLE", n, create_table(tables, n, column_definitions))

\* Statement::Insert (commands.rs 1011-1057)
StatementInsert(n, query_rows) ==
    /\ RowsWithin(execute_insert(tables, n, query_rows).db)
    /\ StatementOnActive("INSERT", n, execute_insert(tables, n, query_rows))

\* Statement::ShowTables (commands.rs 1058-1076): the names it prints are kept in arg
StatementShowTables ==
    LET db == _get_db_from_session(session)
    IN  /\ last.r.st # "panic"
        /\ last' = Call("SHOW TABLES", "", IF db.st = "ok" THEN DOMAIN tables ELSE {}, 
                        IF db.st = "ok" THEN Ok(0) ELSE db)
        /\ UNCHANGED <<tables, reader, registry, session, locks, threads>>

SessionInserts == {<< <<Num(S1), Str(SX)>> >>, << <<Num(S2), Str(S1)>> >>}

NextSession ==
    \/ \E db_name \in SessionDbNames : StatementUse(db_name)
    \/ \E db_name \in SessionDbNames, f \in BOOLEAN : StatementCreateDatabase(db_name, f)
    \/ \E db_name \in SessionDbNames, f \in BOOLEAN : StatementDropDatabase(db_name, f)
    \/ StatementCreateTable("t", DefP)
    \/ \E q \in SessionInserts : StatementInsert("t", q)
    \/ StatementShowTables

SpecSession == InitSession /\ [][NextSession]_vars

----------------------------------------------------------------------------
(* Properties of the session's statements *)

\* the session's handle points to a database the registry no longer lists
Dangling ==
    /\ IsSome(session.active_database)
    /\ Unwrap(session.active_database) \notin LiveArcs(registry)

\* the session's handle points to the database listed under db_name
ActiveIs(db_name) ==
    /\ exists(registry, db_name)
    /\ session.active_database = Some(Unwrap(registry_get(registry, db_name)).arc)

\* C38: DROP DATABASE x with x active removes x from the registry and leaves
\* the session's handle on the dropped database; the statements that follow
\* read and write that database's tables, and the handle stays until a USE
\* succeeds; a CREATE DATABASE x that follows adds a different, empty database.
C38_DroppedDatabaseStaysActive ==
    [][/\ (last'.op = "DROP DATABASE" /\ ActiveIs(last'.table))
          => /\ ~exists(registry', last'.table)
             /\ session'.active_database = session.active_database
             /\ tables' = tables
             /\ Unwrap(session'.active_database) \notin LiveArcs(registry')
       /\ (Dangling /\ last'.op = "INSERT")
          => \E q \in SessionInserts :
                /\ tables' = execute_insert(tables, "t", q).db
                /\ last'.r = execute_insert(tables, "t", q).r
       /\ (Dangling /\ last'.op = "CREATE TABLE")
          => /\ tables' = create_table(tables, "t", DefP).db
             /\ last'.r.st = "ok"
       /\ (Dangling /\ last'.op = "SHOW TABLES")
          => /\ last'.arg = DOMAIN tables
             /\ last'.r.st = "ok"
       /\ (Dangling /\ ~(last'.op = "USE" /\ last'.r.st = "ok"))
          => session'.active_database = session.active_database
       /\ (Dangling /\ last'.op = "USE" /\ last'.r.st = "ok")
          => /\ session'.active_database = Some(Unwrap(registry_get(registry, last'.table)).arc)
             /\ tables' = Unwrap(registry_get(registry, last'.table)).db
       /\ (Dangling /\ last'.op = "CREATE DATABASE" /\ ~exists(registry, last'.table))
          => /\ last'.r.st = "ok"
             /\ Unwrap(registry_get(registry', last'.table)).arc
                   # Unwrap(session.active_database)
             /\ Unwrap(registry_get(registry', last'.table)).db = DatabaseNew
             /\ tables' = tables]_vars

\* a row was inserted into a table of the dropped database while the
\* registry lists an empty database that was created after the drop
C38_Witness ==
    /\ Dangling
    /\ last.op = "INSERT"
    /\ last.r = Ok(1)
    /\ Len(tables["t"].rows) = 2
    /\ Len(registry) = 1
    /\ registry[1].value.db = DatabaseNew

====
